---- MODULE Spec2Model ----
(***************************************************************************)
(* Model of the finite-volume Jacobian assembler (FvBaseAssembler): the    *)
(* four-colour partial relinearization, the sparse assembly and the        *)
(* linearization recycling, on one or more grid partitions (ranks).        *)
(*                                                                         *)
(* All ranks run the same program in lock step: the operations that use a  *)
(* collective (computeColors: border exchange; assemble: global            *)
(* reductions) are one step of all ranks, and so are the operations the    *)
(* Newton method issues on every rank.  markDofRed is a call of one rank.  *)
(*                                                                         *)
(* Scalars are fixed-point integers: the value x stands for x / Scale in   *)
(* the evaluator's units (matrix, residual, storage terms), and DOF errors *)
(* and tolerances are counted in units of 0.01.                            *)
(***************************************************************************)
EXTENDS Integers, Sequences, FiniteSets, TLC

\* ------------------------------------------------------------------ colours
\* enum EntityColor: the ordinals the border exchanges compare.
Red == 0
Yellow == 1
Orange == 2
Green == 3

Colors == {Red, Yellow, Orange, Green}

\* ------------------------------------------------------------------- bounds
\* At most MaxAssemble calls of assemble() in a run change the linear system
\* or the recycling cache: the cached storage term of a Green DOF grows with
\* every assembly, and its cached storage Jacobian is rescaled by every
\* recycled one.
MaxAssemble == 2

\* Number of distinct iterates the per-element evaluator is asked about.
NumVersions == 2

\* numEq: number of equations per DOF (size of a vector block).
NumEq == 1

\* Time-step sizes the time manager can report.
DtVals == {1, 2}

\* DOF errors and tolerances, in units of 0.01.
TolVals == {0, 2}

Versions == 1..NumVersions

Max(a, b) == IF a >= b THEN a ELSE b
Min(a, b) == IF a <= b THEN a ELSE b
Abs(a) == IF a < 0 THEN -a ELSE a

RECURSIVE SetMax(_)
SetMax(S) ==
    IF S = {} THEN 0
    ELSE LET x == CHOOSE y \in S : TRUE IN Max(x, SetMax(S \ {x}))

RECURSIVE SetMin(_)
SetMin(S) ==
    IF S = {} THEN 1
    ELSE LET x == CHOOSE y \in S : TRUE IN
         IF S = {x} THEN x ELSE Min(x, SetMin(S \ {x}))

RECURSIVE Pow(_, _)
Pow(b, n) == IF n = 0 THEN 1 ELSE b * Pow(b, n - 1)

\* Fixed-point denominator of the scalars: every recycled assembly rescales a
\* cached storage Jacobian by a ratio of two time-step sizes.
Scale == Pow(SetMax(DtVals), MaxAssemble)

RECURSIVE Pow4(_)
Pow4(n) == IF n = 0 THEN 1 ELSE 4 * Pow4(n - 1)

\* -------------------------------------------------------------------- grids
\* An element: its stencil (the DOFs it couples, primary DOFs first), the
\* number of primary DOFs and whether it is an interior element of the rank.
Elem(st, np, int) == [stencil |-> st, numPrimaryDof |-> np, interior |-> int]

\* A grid: per rank the elements in traversal order, the DOFs the rank
\* holds and the DOFs with a positive total volume; border: the DOFs shared
\* on the interior-border interface.

\* Vertex-centred 1-D chain of 4 DOFs and 3 elements on one rank.
Chain4 ==
    [elems  |-> << << Elem(<<0, 1>>, 2, TRUE), Elem(<<1, 2>>, 2, TRUE),
                      Elem(<<2, 3>>, 2, TRUE) >> >>,
     dofs   |-> << {0, 1, 2, 3} >>,
     owned  |-> << {0, 1, 2, 3} >>,
     border |-> {}]

\* Vertex-centred chain of 3 DOFs split over two ranks at the border DOF 1.
TwoRank ==
    [elems  |-> << << Elem(<<0, 1>>, 2, TRUE) >>, << Elem(<<1, 2>>, 2, TRUE) >> >>,
     dofs   |-> << {0, 1}, {1, 2} >>,
     owned  |-> << {0, 1}, {1, 2} >>,
     border |-> {1}]

\* The same chain where rank 1 also sees the element of rank 2 as an overlap
\* element, and its DOF 2 as an overlap DOF.
Overlap ==
    [elems  |-> << << Elem(<<0, 1>>, 2, TRUE), Elem(<<1, 2>>, 2, FALSE) >>,
                   << Elem(<<1, 2>>, 2, TRUE) >> >>,
     dofs   |-> << {0, 1, 2}, {1, 2} >>,
     owned  |-> << {0, 1}, {1, 2} >>,
     border |-> {1}]

\* Vertex-centred 1-D chain of 3 DOFs and 2 elements on one rank.
Chain3 ==
    [elems  |-> << << Elem(<<0, 1>>, 2, TRUE), Elem(<<1, 2>>, 2, TRUE) >> >>,
     dofs   |-> << {0, 1, 2} >>,
     owned  |-> << {0, 1, 2} >>,
     border |-> {}]

\* Element-centred chain of 3 cells on one rank: every cell is an element
\* whose only primary DOF is its own and whose stencil also holds the DOFs of
\* the cells it couples to; cell 2 is a ghost cell that holds only itself.
Ecfv ==
    [elems  |-> << << Elem(<<0, 1>>, 1, TRUE), Elem(<<1, 0, 2>>, 1, TRUE),
                      Elem(<<2>>, 1, FALSE) >> >>,
     dofs   |-> << {0, 1, 2} >>,
     owned  |-> << {0, 1} >>,
     border |-> {}]

\* The grid of a name.
GridOf(name) ==
    CASE name = "Chain4" -> Chain4
      [] name = "Chain3" -> Chain3
      [] name = "TwoRank" -> TwoRank
      [] name = "Overlap" -> Overlap
      [] name = "Ecfv" -> Ecfv

\* The grids of the colouring runs and of the assembly runs.
ColorGrids == {"Chain3", "Chain4", "TwoRank"}
AsmGrids == {"Chain3"}
PlainGrids == {"Chain3", "TwoRank", "Overlap", "Ecfv"}

VARIABLES
    gridName,                      \* the name of the grid (fixed after init)
    enablePartialRelinearization,  \* parameter EnablePartialRelinearization
    enableLinearizationRecycling,  \* parameter EnableLinearizationRecycling
    matrix,                        \* per rank: row DOF -> column DOF -> block
    residual,                      \* per rank: DOF -> block
    reuseLinearization,            \* per rank
    storageJacobian,               \* per rank: DOF -> block
    storageTerm,                   \* per rank: DOF -> block
    oldDt,                         \* per rank: time step size of last assembly
    dofColor,                      \* per rank: DOF -> colour
    dofError,                      \* per rank: DOF -> error
    elementColor,                  \* per rank: element index -> colour
    greenElems,                    \* per rank
    nextRelinearizationAccuracy,   \* per rank
    relinearizationAccuracy,       \* per rank
    numAssemble,                   \* number of assemble() calls that changed the system
    uCurrentIter,                  \* the Newton method's current solution: DOF -> block
    proc,                          \* per rank: where the rank is inside assemble()
    last                           \* the last operation and its arguments

vars == << gridName, enablePartialRelinearization, enableLinearizationRecycling,
           matrix, residual, reuseLinearization, storageJacobian, storageTerm,
           oldDt, dofColor, dofError, elementColor, greenElems,
           nextRelinearizationAccuracy, relinearizationAccuracy,
           numAssemble, uCurrentIter, proc, last >>

\* The variables of the assembler.
progVars ==
    << gridName, enablePartialRelinearization, enableLinearizationRecycling,
       matrix, residual, reuseLinearization, storageJacobian, storageTerm, oldDt,
       dofColor, dofError, elementColor, greenElems,
       nextRelinearizationAccuracy, relinearizationAccuracy >>

grid == GridOf(gridName)
Ranks == 1..Len(grid.elems)
Dofs(r) == grid.dofs[r]
Elems(r) == grid.elems[r]
ElemIdx(r) == 1..Len(grid.elems[r])
StencilDofs(r, e) == { Elems(r)[e].stencil[k] : k \in 1..Len(Elems(r)[e].stencil) }
PrimaryDofs(r, e) == { Elems(r)[e].stencil[k] : k \in 1..Elems(r)[e].numPrimaryDof }
InteriorElems(r) == { e \in ElemIdx(r) : Elems(r)[e].interior }

\* ------------------------------------------------------------ createMatrix_
\* The columns of row i with the couplings made symmetric.
NeighborsSymmetric(r, i) ==
    UNION { StencilDofs(r, e) :
              e \in { x \in 1..Len(grid.elems[r]) :
                        i \in PrimaryDofs(r, x) } }
    \cup { j \in grid.dofs[r] :
             \E e \in 1..Len(grid.elems[r]) :
                j \in PrimaryDofs(r, e) /\ i \in StencilDofs(r, e) }

\* The columns of row i collected from the interior elements only.
NeighborsInterior(r, i) ==
    UNION { StencilDofs(r, e) :
              e \in { x \in InteriorElems(r) : i \in PrimaryDofs(r, x) } }

\* The columns of row i: every DOF of the stencil of every element that has i
\* among its primary DOFs.
Neighbors(r, i) ==
    UNION { StencilDofs(r, e) : e \in { x \in ElemIdx(r) : i \in PrimaryDofs(r, x) } }

ZeroMatrix(r) == [i \in Dofs(r) |-> [j \in Neighbors(r, i) |-> 0]]

ZeroVector(r) == [i \in Dofs(r) |-> 0]

\* A vector that was never resized has no entries.
EmptyVector == [i \in {} |-> 0]

\* ------------------------------------------------------------------- ghost
\* The record of the last operation: its name and arguments;
\* afterRelinearizeAll: computeColors was called right after relinearizeAll;
\* above: some
\* DOF error was above the tolerance when computeColors was called;
\* reported: what assemble() reported on each rank (TRUE: it returned,
\* FALSE: it threw); yesno: the argument of setLinearizationReusable;
\* threw: update_ threw; flag: the parameter the Newton method read
\* (EnablePartialReassemble in update_, EnableJacobianRecycling in
\* succeeded_); error, finalTol: the nonlinear error and the final tolerance
\* update_ saw; pending: a recycling request was pending when the operation
\* was called (for assemble(): when the operation before it was called);
\* nonFinite: the update given to update_ held a non-finite component;
\* resEval, fullEval: per rank, the elements on which assemble() invoked
\* the residual-only evaluator and the full evaluator;
\* cols: the DOF colours the second border exchange started from;
\* prev: the operation before this assemble(); prevRecycled: that operation
\* was a recycled assemble().
NoOp ==
    [op |-> "init", rank |-> 0, dof |-> -1, afterRelinearizeAll |-> FALSE,
     tol |-> 0, above |-> FALSE, yesno |-> FALSE,
     threw |-> FALSE, flag |-> FALSE, error |-> 0, finalTol |-> 0,
     pending |-> FALSE, prev |-> "", prevRecycled |-> FALSE, nonFinite |-> FALSE,
     resEval |-> << >>, fullEval |-> << >>, cols |-> << >>,
     version |-> 0, recycled |-> FALSE, failAt |-> << >>, reported |-> << >>]

\* -------------------------------------------------------------------- init
\* A rank outside assemble(). pc: the position of the rank in assemble();
\* reused: its local linearizationReused; calls: the collective operations it
\* has entered since init(), each with the value it contributed; start: the
\* number of them entered before the current call; round: the number of
\* assemble() calls the rank has begun.
IdleProc == [pc |-> "idle", reused |-> FALSE, calls |-> << >>, start |-> 0, round |-> 0]

\* The values a vector that init() resizes but does not fill may hold.
UninitVals == {0, Scale}

\* The values of relinearizationAccuracy_ if the constructor left it unset.
UnsetAccuracy == UninitVals

\* The values of relinearizationAccuracy_ after the constructor.
ConstructedAccuracy == {0}

\* The state after init(): init() resizes residual_, storageJacobian_ and
\* storageTerm_ without filling them, and neither the constructor nor init()
\* sets oldDt_ and greenElems_.
InitOn(grids, partial, recycling, dts, uninit) ==
    /\ gridName \in grids
    /\ enablePartialRelinearization \in partial
    /\ enableLinearizationRecycling \in recycling
    /\ matrix = [r \in Ranks |-> ZeroMatrix(r)]
    /\ \E u \in uninit :
         /\ residual = [r \in Ranks |-> [i \in Dofs(r) |-> u]]
         /\ storageJacobian =
              [r \in Ranks |-> IF enableLinearizationRecycling
                               THEN [i \in Dofs(r) |-> u] ELSE EmptyVector]
         /\ storageTerm =
              [r \in Ranks |-> IF enableLinearizationRecycling
                               THEN [i \in Dofs(r) |-> u] ELSE EmptyVector]
         /\ greenElems = [r \in Ranks |-> u]
    /\ reuseLinearization = [r \in Ranks |-> FALSE]
    /\ \E d \in dts : oldDt = [r \in Ranks |-> d]
    /\ dofColor =
         [r \in Ranks |-> IF enablePartialRelinearization
                          THEN [i \in Dofs(r) |-> Red] ELSE EmptyVector]
    /\ dofError =
         [r \in Ranks |-> IF enablePartialRelinearization THEN ZeroVector(r) ELSE EmptyVector]
    /\ elementColor =
         [r \in Ranks |-> IF enablePartialRelinearization
                          THEN [e \in ElemIdx(r) |-> Red] ELSE EmptyVector]
    /\ nextRelinearizationAccuracy = [r \in Ranks |-> 0]
    /\ \E a \in ConstructedAccuracy : relinearizationAccuracy = [r \in Ranks |-> a]
    /\ numAssemble = 0
    /\ uCurrentIter = [i \in UNION { Dofs(r) : r \in Ranks } |-> [k \in 1..NumEq |-> 0]]
    /\ proc = [r \in Ranks |-> IdleProc]
    /\ last = NoOp

\* ------------------------------------------------------------------ queries
\* dofColor(globalDofIdx)
DofColorOf(r, i) == IF ~enablePartialRelinearization THEN Red ELSE dofColor[r][i]

\* elementColor(globalElementIdx)
ElementColorOf(r, e) == IF ~enablePartialRelinearization THEN Red ELSE elementColor[r][e]

\* ----------------------------------------------------------- relinearizeAll
\* relinearizeAll that leaves the DOF colours alone.
RelinearizeAllElementsOnly ==
    /\ reuseLinearization' = [r \in Ranks |-> FALSE]
    /\ nextRelinearizationAccuracy' = [r \in Ranks |-> 0]
    /\ IF enablePartialRelinearization
       THEN /\ dofError' = [r \in Ranks |-> [i \in DOMAIN dofError[r] |-> 0]]
            /\ elementColor' = [r \in Ranks |-> [e \in DOMAIN elementColor[r] |-> Red]]
            /\ UNCHANGED dofColor
       ELSE UNCHANGED << dofError, dofColor, elementColor >>
    /\ last' = [NoOp EXCEPT !.op = "relinearizeAll"]
    /\ UNCHANGED << gridName, proc, uCurrentIter, enablePartialRelinearization, enableLinearizationRecycling,
                    matrix, residual, storageJacobian, storageTerm, oldDt,
                    greenElems, relinearizationAccuracy, numAssemble >>

\* relinearizeAll that leaves a pending recycling request in place.
DoRelinearizeAllKeepReuse ==
    /\ nextRelinearizationAccuracy' = [r \in Ranks |-> 0]
    /\ IF enablePartialRelinearization
       THEN /\ dofError' = [r \in Ranks |-> [i \in DOMAIN dofError[r] |-> 0]]
            /\ dofColor' = [r \in Ranks |-> [i \in DOMAIN dofColor[r] |-> Red]]
            /\ elementColor' = [r \in Ranks |-> [e \in DOMAIN elementColor[r] |-> Red]]
       ELSE UNCHANGED << dofError, dofColor, elementColor >>
    /\ UNCHANGED << gridName, proc, uCurrentIter, enablePartialRelinearization, enableLinearizationRecycling,
                    matrix, residual, reuseLinearization, storageJacobian, storageTerm, oldDt,
                    greenElems, relinearizationAccuracy, numAssemble >>

\* What relinearizeAll() does to the assembler.
DoRelinearizeAll ==
    /\ reuseLinearization' = [r \in Ranks |-> FALSE]
    /\ nextRelinearizationAccuracy' = [r \in Ranks |-> 0]
    /\ IF enablePartialRelinearization
       THEN /\ dofError' = [r \in Ranks |-> [i \in DOMAIN dofError[r] |-> 0]]
            /\ dofColor' = [r \in Ranks |-> [i \in DOMAIN dofColor[r] |-> Red]]
            /\ elementColor' = [r \in Ranks |-> [e \in DOMAIN elementColor[r] |-> Red]]
       ELSE UNCHANGED << dofError, dofColor, elementColor >>
    /\ UNCHANGED << gridName, proc, uCurrentIter, enablePartialRelinearization, enableLinearizationRecycling,
                    matrix, residual, storageJacobian, storageTerm, oldDt,
                    greenElems, relinearizationAccuracy, numAssemble >>

RelinearizeAll ==
    /\ DoRelinearizeAll
    /\ last' = [NoOp EXCEPT !.op = "relinearizeAll",
                            !.pending = \E r \in Ranks : reuseLinearization[r],
                            !.above = \E r \in Ranks : \E i \in DOMAIN dofError[r] :
                                         dofError[r][i] > 0]

\* ------------------------------------------------- setLinearizationReusable
\* setLinearizationReusable that can make a request but not cancel one.
DoSetLinearizationReusableSticky(yesno) ==
    /\ reuseLinearization' =
         IF enableLinearizationRecycling /\ yesno
         THEN [r \in Ranks |-> TRUE] ELSE reuseLinearization
    /\ UNCHANGED << gridName, proc, uCurrentIter, enablePartialRelinearization, enableLinearizationRecycling,
                    matrix, residual, storageJacobian, storageTerm, oldDt,
                    dofColor, dofError, elementColor, greenElems,
                    nextRelinearizationAccuracy, relinearizationAccuracy, numAssemble >>

\* What setLinearizationReusable(yesno) does to the assembler.
DoSetLinearizationReusable(yesno) ==
    /\ reuseLinearization' =
         IF enableLinearizationRecycling
         THEN [r \in Ranks |-> yesno] ELSE reuseLinearization
    /\ UNCHANGED << gridName, proc, uCurrentIter, enablePartialRelinearization, enableLinearizationRecycling,
                    matrix, residual, storageJacobian, storageTerm, oldDt,
                    dofColor, dofError, elementColor, greenElems,
                    nextRelinearizationAccuracy, relinearizationAccuracy, numAssemble >>

SetLinearizationReusable(yesno) ==
    /\ DoSetLinearizationReusable(yesno)
    /\ last' = [NoOp EXCEPT !.op = "setLinearizationReusable", !.yesno = yesno]

\* -------------------------------------------------------- updateDiscrepancy
\* model_().eqWeight(globalDofIdx, eqIdx)
EqWeight(i, eqIdx) == 1

\* The largest weighted absolute component of the block r of one DOF.
RECURSIVE Dist(_, _, _)
Dist(blk, i, eqIdx) ==
    IF eqIdx = 0 THEN 0
    ELSE Max(Dist(blk, i, eqIdx - 1), Abs(blk[eqIdx] * EqWeight(i, eqIdx)))

\* updateDiscrepancy that does not look at the total volume of a DOF.
UpdatedErrorAnyVolume(r, previousResid) ==
    [i \in Dofs(r) |-> Dist(previousResid[i], i, Len(previousResid[i]))]

\* dofError_ of rank r after updateDiscrepancy(previousResid); DOFs whose
\* total volume is not positive (overlap and ghost DOFs) get 0.
UpdatedError(r, previousResid) ==
    [i \in Dofs(r) |->
        IF i \notin grid.owned[r] THEN 0
        ELSE Dist(previousResid[i], i, Len(previousResid[i]))]

AllDofs == UNION { Dofs(r) : r \in Ranks }

\* The largest number of elements of a rank.
MaxElems == SetMax({ Len(grid.elems[r]) : r \in Ranks })

\* updateDiscrepancy without the test of the partial relinearization flag.
UpdateDiscrepancyAlways(previousResid) ==
    /\ dofError' = [r \in Ranks |-> UpdatedError(r, previousResid)]
    /\ last' = [NoOp EXCEPT !.op = "updateDiscrepancy"]
    /\ UNCHANGED << gridName, proc, uCurrentIter, enablePartialRelinearization, enableLinearizationRecycling,
                    matrix, residual, reuseLinearization, storageJacobian, storageTerm,
                    oldDt, dofColor, elementColor, greenElems,
                    nextRelinearizationAccuracy, relinearizationAccuracy, numAssemble >>

UpdateDiscrepancy(previousResid) ==
    /\ dofError' =
         IF ~enablePartialRelinearization THEN dofError
         ELSE [r \in Ranks |-> UpdatedError(r, previousResid)]
    /\ last' = [NoOp EXCEPT !.op = "updateDiscrepancy"]
    /\ UNCHANGED << gridName, proc, uCurrentIter, enablePartialRelinearization, enableLinearizationRecycling,
                    matrix, residual, reuseLinearization, storageJacobian, storageTerm,
                    oldDt, dofColor, elementColor, greenElems,
                    nextRelinearizationAccuracy, relinearizationAccuracy, numAssemble >>

\* --------------------------------------------------------------- markDofRed
MarkDofRed(r, i) ==
    /\ dofColor' =
         IF ~enablePartialRelinearization THEN dofColor
         ELSE [dofColor EXCEPT ![r][i] = Red]
    /\ last' = [NoOp EXCEPT !.op = "markDofRed", !.rank = r, !.dof = i]
    /\ UNCHANGED << gridName, proc, uCurrentIter, enablePartialRelinearization, enableLinearizationRecycling,
                    matrix, residual, reuseLinearization, storageJacobian, storageTerm,
                    oldDt, dofError, elementColor, greenElems,
                    nextRelinearizationAccuracy, relinearizationAccuracy, numAssemble >>

\* ------------------------------------------------------------ computeColors
\* The passes of computeColors on one rank; col and ecol are the DOF and the
\* element colours of the rank, err its DOF errors.

\* MarkRedDofs with a loop that starts one DOF late.
MarkRedDofsLate(col, err, tol) ==
    [i \in DOMAIN col |-> IF i # 0 /\ err[i] > tol THEN Red ELSE col[i]]

\* Mark the DOFs red whose error is above the tolerance.
MarkRedDofs(col, err, tol) ==
    [i \in DOMAIN col |-> IF err[i] > tol THEN Red ELSE col[i]]

\* The largest error of a DOF that the first pass did not mark.
NextAccuracy(err, tol) ==
    SetMax({ err[i] : i \in { x \in DOMAIN err : ~(err[x] > tol) } })

\* MarkRedElements that looks at the first DOF of the stencil only.
MarkRedElementsFirst(r, col) ==
    [e \in ElemIdx(r) |->
        IF col[Elems(r)[e].stencil[1]] = Red THEN Red ELSE Green]

\* Mark all red elements: red if the stencil holds a red DOF, else green.
MarkRedElements(r, col) ==
    [e \in ElemIdx(r) |->
        IF \E i \in StencilDofs(r, e) : col[i] = Red THEN Red ELSE Green]

\* Mark yellow DOFs (as orange for the mean time): the non-red DOFs of the
\* red elements.
MarkOrangeDofs(r, ecol, col) ==
    [i \in DOMAIN col |->
        IF col[i] # Red /\ \E e \in ElemIdx(r) : ecol[e] = Red /\ i \in StencilDofs(r, e)
        THEN Orange ELSE col[i]]

\* A yellow-element pass that leaves the element colours as they are.
MarkYellowElementsNot(r, ecol, col) == ecol

\* Mark yellow elements: the non-red elements with an orange DOF.
MarkYellowElements(r, ecol, col) ==
    [e \in ElemIdx(r) |->
        IF ecol[e] # Red /\ \E i \in StencilDofs(r, e) : col[i] = Orange
        THEN Yellow ELSE ecol[e]]

\* Demote the orange DOFs of green elements to yellow.
DemoteOrangeDofs(r, ecol, col) ==
    [i \in DOMAIN col |->
        IF col[i] = Orange /\ \E e \in ElemIdx(r) : ecol[e] = Green /\ i \in StencilDofs(r, e)
        THEN Yellow ELSE col[i]]

\* A promotion pass that leaves the orange DOFs as they are.
PromoteOrangeDofsNot(col) == col

\* Promote the remaining orange DOFs to red.
PromoteOrangeDofs(col) ==
    [i \in DOMAIN col |-> IF col[i] = Green \/ col[i] = Yellow THEN col[i] ELSE Red]

\* A last loop that promotes without resetting the errors.
ResetRedErrorsNot(col, err) == err

\* The error of a DOF that is red at the end is set to 0.
ResetRedErrors(col, err) ==
    [i \in DOMAIN err |-> IF col[i] = Green \/ col[i] = Yellow THEN err[i] ELSE 0]

\* The ranks that hold DOF i.
Sharing(i) == { q \in Ranks : i \in Dofs(q) }

\* Border exchange with the min handle: every border DOF gets the smallest
\* colour ordinal any rank holding it has.
MinExchange(cols) ==
    [r \in Ranks |->
        [i \in DOMAIN cols[r] |->
            IF i \in grid.border THEN SetMin({ cols[q][i] : q \in Sharing(i) })
            ELSE cols[r][i]]]

\* Border exchange with the max handle.
MaxExchange(cols) ==
    [r \in Ranks |->
        [i \in DOMAIN cols[r] |->
            IF i \in grid.border THEN SetMax({ cols[q][i] : q \in Sharing(i) })
            ELSE cols[r][i]]]

\* computeColors(tolerance) without the two border exchanges: every rank
\* colours on its own.
ColorizeLocal(err, tolerance) ==
    \E col1 \in {[r \in Ranks |-> MarkRedDofs(dofColor[r], err[r], tolerance)]} :
    \E ecol1 \in {[r \in Ranks |-> MarkRedElements(r, col1[r])]} :
    \E col2 \in {[r \in Ranks |-> MarkOrangeDofs(r, ecol1[r], col1[r])]} :
    \E ecol2 \in {[r \in Ranks |-> MarkYellowElements(r, ecol1[r], col2[r])]} :
    \E col4 \in {[r \in Ranks |-> DemoteOrangeDofs(r, ecol2[r], col2[r])]} :
        /\ nextRelinearizationAccuracy' =
             [r \in Ranks |-> NextAccuracy(err[r], tolerance)]
        /\ elementColor' = ecol2
        /\ dofColor' = [r \in Ranks |-> PromoteOrangeDofs(col4[r])]
        /\ dofError' = [r \in Ranks |-> ResetRedErrors(col4[r], err[r])]

\* The passes of computeColors(tolerance) over the DOF errors err.
Colorize(err, tolerance) ==
    \E col1 \in {[r \in Ranks |-> MarkRedDofs(dofColor[r], err[r], tolerance)]} :
    \E ecol1 \in {[r \in Ranks |-> MarkRedElements(r, col1[r])]} :
    \E col2 \in {[r \in Ranks |-> MarkOrangeDofs(r, ecol1[r], col1[r])]} :
    \E col3 \in {MinExchange(col2)} :
    \E ecol2 \in {[r \in Ranks |-> MarkYellowElements(r, ecol1[r], col3[r])]} :
    \E col4 \in {[r \in Ranks |-> DemoteOrangeDofs(r, ecol2[r], col3[r])]} :
    \E col5 \in {MaxExchange(col4)} :
        /\ nextRelinearizationAccuracy' =
             [r \in Ranks |-> NextAccuracy(err[r], tolerance)]
        /\ elementColor' = ecol2
        /\ dofColor' = [r \in Ranks |-> PromoteOrangeDofs(col5[r])]
        /\ dofError' = [r \in Ranks |-> ResetRedErrors(col5[r], err[r])]

\* The DOF colours of computeColors(tolerance) after the second border
\* exchange, before the promotion pass.
ColorsAfterMaxExchange(err, tolerance) ==
    LET col1 == [r \in Ranks |-> MarkRedDofs(dofColor[r], err[r], tolerance)]
        ecol1 == [r \in Ranks |-> MarkRedElements(r, col1[r])]
        col2 == [r \in Ranks |-> MarkOrangeDofs(r, ecol1[r], col1[r])]
        col3 == MinExchange(col2)
        ecol2 == [r \in Ranks |-> MarkYellowElements(r, ecol1[r], col3[r])]
        col4 == [r \in Ranks |-> DemoteOrangeDofs(r, ecol2[r], col3[r])]
    IN MaxExchange(col4)

ComputeColors(tolerance) ==
    /\ IF ~enablePartialRelinearization
       THEN UNCHANGED << dofColor, dofError, elementColor, nextRelinearizationAccuracy >>
       ELSE Colorize(dofError, tolerance)
    /\ last' = [NoOp EXCEPT !.op = "computeColors", !.tol = tolerance,
                            !.afterRelinearizeAll = (last.op = "relinearizeAll"),
                            !.above = \E r \in Ranks : \E i \in DOMAIN dofError[r] :
                                         dofError[r][i] > tolerance]
    /\ UNCHANGED << gridName, proc, uCurrentIter, enablePartialRelinearization, enableLinearizationRecycling,
                    matrix, residual, reuseLinearization, storageJacobian, storageTerm,
                    oldDt, greenElems, relinearizationAccuracy, numAssemble >>

\* ---------------------------------------------------------------- evaluator
\* What the per-element evaluator returns at iterate `version` for element e
\* of a rank (p, q: local indices in the stencil).  Distinct elements and
\* iterates give distinct values, so a sum tells which contributions it holds.
ElemWeight(e) == Scale * Pow4(e - 1)

\* localJacobian().residual(p), localResidual().residual(p)
EvalResidual(version, e, p) == version * ElemWeight(e) * (p + 1)

\* localJacobian().residualStorage(p), localResidual().storageTerm(p)
EvalStorageTerm(version, e, p) == version * ElemWeight(e)

\* localJacobian().jacobian(p, q)
EvalJacobian(version, e, p, q) == version * ElemWeight(e) * (IF p = q THEN 3 ELSE 1)

\* localJacobian().jacobianStorage(p)
EvalJacobianStorage(version, e, p) == version * ElemWeight(e)

LocalIdx(r, e, i) == CHOOSE k \in 1..Len(Elems(r)[e].stencil) : Elems(r)[e].stencil[k] = i

\* ------------------------------------------------------------ resetSystem_
\* The linear system of one rank: s.m the matrix, s.res the residual, s.sj and
\* s.st the storage Jacobian and the storage term, s.green the counter of
\* green elements.
\* resetSystem_ that resets the residual and the cache but not the matrix
\* when partial relinearization is disabled.
ResetSystemKeepMatrix(r, s) ==
    IF reuseLinearization[r] THEN s
    ELSE [s EXCEPT !.res = [i \in DOMAIN s.res |-> 0],
                   !.sj = [i \in DOMAIN s.sj |->
                            IF DofColorOf(r, i) = Green THEN s.sj[i] ELSE 0],
                   !.st = [i \in DOMAIN s.st |->
                            IF DofColorOf(r, i) = Green THEN s.st[i] ELSE 0]]

\* resetSystem_ that does not reset the right hand side.
ResetSystemKeepResidual(r, s) ==
    IF reuseLinearization[r] THEN s
    ELSE IF ~enablePartialRelinearization
    THEN [s EXCEPT !.m = [i \in DOMAIN s.m |-> [j \in DOMAIN s.m[i] |-> 0]],
                   !.sj = [i \in DOMAIN s.sj |-> 0],
                   !.st = [i \in DOMAIN s.st |-> 0]]
    ELSE [s EXCEPT !.m = [i \in DOMAIN s.m |->
                            IF dofColor[r][i] = Green THEN s.m[i]
                            ELSE [j \in DOMAIN s.m[i] |-> 0]],
                   !.sj = [i \in DOMAIN s.sj |->
                            IF dofColor[r][i] = Green THEN s.sj[i] ELSE 0],
                   !.st = [i \in DOMAIN s.st |->
                            IF dofColor[r][i] = Green THEN s.st[i] ELSE 0]]

\* resetSystem_ that zeroes every row whatever its colour.
ResetSystemAllRows(r, s) ==
    IF reuseLinearization[r] THEN s
    ELSE [s EXCEPT !.res = [i \in DOMAIN s.res |-> 0],
                   !.m = [i \in DOMAIN s.m |-> [j \in DOMAIN s.m[i] |-> 0]],
                   !.sj = [i \in DOMAIN s.sj |-> 0],
                   !.st = [i \in DOMAIN s.st |-> 0]]

ResetSystem(r, s) ==
    IF reuseLinearization[r] THEN s
    ELSE IF ~enablePartialRelinearization
    THEN [s EXCEPT !.res = [i \in DOMAIN s.res |-> 0],
                   !.m = [i \in DOMAIN s.m |-> [j \in DOMAIN s.m[i] |-> 0]],
                   !.sj = [i \in DOMAIN s.sj |-> 0],
                   !.st = [i \in DOMAIN s.st |-> 0]]
    ELSE [s EXCEPT !.res = [i \in DOMAIN s.res |-> 0],
                   !.m = [i \in DOMAIN s.m |->
                            IF dofColor[r][i] = Green THEN s.m[i]
                            ELSE [j \in DOMAIN s.m[i] |-> 0]],
                   !.sj = [i \in DOMAIN s.sj |->
                            IF dofColor[r][i] = Green THEN s.sj[i] ELSE 0],
                   !.st = [i \in DOMAIN s.st |->
                            IF dofColor[r][i] = Green THEN s.st[i] ELSE 0]]

\* ------------------------------------------------------- assembleElement_
\* The test of assembleElement_ with Yellow elements sent down the
\* residual-only path as well.
TakesGreenPathYellow(r, e) ==
    enablePartialRelinearization /\ elementColor[r][e] \in {Green, Yellow}

\* True if assembleElement_ takes the residual-only path for element e.
TakesGreenPath(r, e) == enablePartialRelinearization /\ elementColor[r][e] = Green

\* assembleGreenElement_: only the residual (and the storage term).
AssembleGreenElement(r, e, version, s) ==
    [s EXCEPT
       !.res = [i \in DOMAIN s.res |->
                  IF i \in PrimaryDofs(r, e)
                  THEN s.res[i] + EvalResidual(version, e, LocalIdx(r, e, i))
                  ELSE s.res[i]],
       !.st = [i \in DOMAIN s.st |->
                  IF i \in PrimaryDofs(r, e)
                  THEN s.st[i] + EvalStorageTerm(version, e, LocalIdx(r, e, i))
                  ELSE s.st[i]]]

\* The full path of assembleElement_: residual and storage term of every
\* primary DOF, Jacobian and storage Jacobian of the non-green ones.
AssembleFullElement(r, e, version, s) ==
    [s EXCEPT
       !.res = [i \in DOMAIN s.res |->
                  IF i \in PrimaryDofs(r, e)
                  THEN s.res[i] + EvalResidual(version, e, LocalIdx(r, e, i))
                  ELSE s.res[i]],
       !.st = [i \in DOMAIN s.st |->
                  IF i \in PrimaryDofs(r, e)
                  THEN s.st[i] + EvalStorageTerm(version, e, LocalIdx(r, e, i))
                  ELSE s.st[i]],
       !.sj = [i \in DOMAIN s.sj |->
                  IF i \in PrimaryDofs(r, e) /\ DofColorOf(r, i) # Green
                  THEN s.sj[i] + EvalJacobianStorage(version, e, LocalIdx(r, e, i))
                  ELSE s.sj[i]],
       !.m = [i \in DOMAIN s.m |->
                  IF i \in PrimaryDofs(r, e) /\ DofColorOf(r, i) # Green
                  THEN [j \in DOMAIN s.m[i] |->
                          IF j \in StencilDofs(r, e)
                          THEN s.m[i][j] + EvalJacobian(version, e, LocalIdx(r, e, i),
                                                        LocalIdx(r, e, j))
                          ELSE s.m[i][j]]
                  ELSE s.m[i]]]

AssembleElement(r, e, version, s) ==
    IF TakesGreenPath(r, e)
    THEN AssembleGreenElement(r, e, version,
                              [s EXCEPT !.green = s.green + 1,
                                        !.resEval = s.resEval \cup {e}])
    ELSE AssembleFullElement(r, e, version,
                             [s EXCEPT !.fullEval = s.fullEval \cup {e}])

\* The element loop of assemble_ from element e on; the evaluator throws at
\* element failAt (0: it does not throw), which ends the loop.
RECURSIVE AssembleElements(_, _, _, _, _)
AssembleElements(r, e, version, failAt, s) ==
    IF e > Len(Elems(r)) THEN s
    ELSE IF ~Elems(r)[e].interior THEN AssembleElements(r, e + 1, version, failAt, s)
    ELSE IF e = failAt
    THEN (IF TakesGreenPath(r, e)
          THEN [s EXCEPT !.green = s.green + 1, !.resEval = s.resEval \cup {e}]
          ELSE [s EXCEPT !.fullEval = s.fullEval \cup {e}])
    ELSE AssembleElements(r, e + 1, version, failAt, AssembleElement(r, e, version, s))

\* ---------------------------------------------------------------- assemble_
\* Rescale with the ratio of the step sizes inverted.
RescaleInverted(x, old, cur) == (x * cur) \div old

\* x * (oldDt_ / curDt) in fixed point.
Rescale(x, old, cur) == (x * old) \div cur

\* A recycled path that also forgets the cached storage term once it has
\* become the residual.
RecycleForgetful(r, curDt, s) ==
    [s EXCEPT
       !.m = [i \in DOMAIN s.m |->
                IF i \in DOMAIN s.sj
                THEN [s.m[i] EXCEPT ![i] = (s.m[i][i] - s.sj[i])
                                             + Rescale(s.sj[i], oldDt[r], curDt)]
                ELSE s.m[i]],
       !.sj = [i \in DOMAIN s.sj |-> Rescale(s.sj[i], oldDt[r], curDt)],
       !.res = [i \in DOMAIN s.res |->
                IF i \in DOMAIN s.sj THEN (-1) * s.st[i] ELSE s.res[i]],
       !.st = [i \in DOMAIN s.st |-> 0]]

\* The recycled path of assemble_: rescale the storage part of the diagonal
\* blocks, and take the negative storage term as the residual.
Recycle(r, curDt, s) ==
    [s EXCEPT
       !.m = [i \in DOMAIN s.m |->
                IF i \in DOMAIN s.sj
                THEN [s.m[i] EXCEPT ![i] = (s.m[i][i] - s.sj[i])
                                             + Rescale(s.sj[i], oldDt[r], curDt)]
                ELSE s.m[i]],
       !.sj = [i \in DOMAIN s.sj |-> Rescale(s.sj[i], oldDt[r], curDt)],
       !.res = [i \in DOMAIN s.res |->
                IF i \in DOMAIN s.sj THEN (-1) * s.st[i] ELSE s.res[i]]]

\* The blocks (row, column) of rank r that assemble() may write to: the
\* blocks [globI][globJ] an interior element accumulates into, and the
\* diagonal blocks [i][i] the recycled path rescales.
BlockWrites(r) ==
    { <<i, j>> \in AllDofs \X AllDofs :
         \E e \in InteriorElems(r) :
            i \in PrimaryDofs(r, e) /\ j \in StencilDofs(r, e) }
    \cup { <<i, i>> : i \in DOMAIN storageJacobian[r] }

\* The linear system of rank r when assemble_ returns or throws.
AssembleLocal(r, version, curDt, failAt) ==
    LET s0 == [m |-> matrix[r], res |-> residual[r], sj |-> storageJacobian[r],
               st |-> storageTerm[r], green |-> greenElems[r],
               resEval |-> {}, fullEval |-> {}]
        s1 == ResetSystem(r, s0)
    IN  IF reuseLinearization[r] THEN Recycle(r, curDt, s1)
        ELSE AssembleElements(r, 1, version, failAt, [s1 EXCEPT !.green = 0])

\* ----------------------------------------------------------------- assemble
\* The reduction of the success flags with max in place of min.
CommMinAsMax(localOk) == \E q \in DOMAIN localOk : localOk[q]

\* comm().min(succeeded): 1 on every rank if every rank succeeded, else 0.
CommMin(localOk) == \A q \in DOMAIN localOk : localOk[q]

\* comm().sum(greenElems_)
RECURSIVE SumTo(_, _)
SumTo(vals, n) == IF n = 0 THEN 0 ELSE vals[n] + SumTo(vals, n - 1)
CommSum(vals) == SumTo(vals, Len(grid.elems))

\* comm().max(nextRelinearizationAccuracy_)
CommMax(vals) == SetMax({ vals[q] : q \in DOMAIN vals })

\* The element at which the evaluator of rank r may throw: an interior
\* element, and none when the linearization is recycled.
FailChoices(r) == IF reuseLinearization[r] THEN {0} ELSE {0} \cup InteriorElems(r)

\* An assemble() that resets the DOF colours before it throws.
ResetDofColorsAlways(succeeded) ==
    [r \in Ranks |-> [i \in DOMAIN dofColor[r] |-> Green]]

\* The DOF colours after assemble(): the loop at its end sets every colour to
\* Green; it is not reached when a process did not succeed and assemble()
\* throws.
ResetDofColors(succeeded) ==
    IF succeeded
    THEN [r \in Ranks |-> [i \in DOMAIN dofColor[r] |-> Green]]
    ELSE dofColor

Assemble(version, curDt, failAt) ==
    /\ numAssemble < MaxAssemble
    /\ \A r \in Ranks : failAt[r] \in FailChoices(r)
    /\ \E loc \in {[r \in Ranks |-> AssembleLocal(r, version, curDt, failAt[r])]} :
       \E succeeded \in {CommMin([r \in Ranks |-> failAt[r] = 0])} :
       LET linearizationReused == reuseLinearization IN
        /\ matrix' = [r \in Ranks |-> loc[r].m]
        /\ residual' = [r \in Ranks |-> loc[r].res]
        /\ storageJacobian' = [r \in Ranks |-> loc[r].sj]
        /\ storageTerm' = [r \in Ranks |-> loc[r].st]
        /\ numAssemble' =
             IF << matrix', residual', storageJacobian', storageTerm' >>
                  = << matrix, residual, storageJacobian, storageTerm >>
             THEN numAssemble ELSE numAssemble + 1
        /\ reuseLinearization' = [r \in Ranks |-> FALSE]
        /\ oldDt' = [r \in Ranks |-> curDt]
        /\ greenElems' =
             [r \in Ranks |->
                IF succeeded /\ ~linearizationReused[r] /\ enablePartialRelinearization
                THEN CommSum([q \in Ranks |-> loc[q].green])
                ELSE loc[r].green]
        /\ relinearizationAccuracy' =
             [r \in Ranks |->
                IF succeeded /\ ~linearizationReused[r] /\ enablePartialRelinearization
                THEN CommMax(nextRelinearizationAccuracy)
                ELSE relinearizationAccuracy[r]]
        /\ dofColor' = ResetDofColors(succeeded)
        /\ last' = [NoOp EXCEPT !.op = "assemble", !.version = version,
                                !.prev = last.op, !.pending = last.pending,
                                !.prevRecycled = last.recycled,
                                !.resEval = [r \in Ranks |-> loc[r].resEval],
                                !.fullEval = [r \in Ranks |-> loc[r].fullEval],
                                !.recycled = linearizationReused[1],
                                !.failAt = failAt,
                                !.reported = [r \in Ranks |-> succeeded]]
        /\ UNCHANGED << gridName, proc, uCurrentIter, enablePartialRelinearization, enableLinearizationRecycling,
                        dofError, elementColor, nextRelinearizationAccuracy >>

\* ------------------------------------------------------------------- inputs
\* Update vectors whose components are 0 or -0.02.
SmallUpdates == [AllDofs -> [1..NumEq -> {0, -2}]]

\* The update of the end-to-end scenario on the chain of 4 DOFs: it gives the
\* errors 0.5, 0, 0, 0.02.
ScenarioUpdate == (0 :> <<-50>>) @@ (1 :> <<0>>) @@ (2 :> <<0>>) @@ (3 :> <<2>>)

ZeroUpdate == [i \in AllDofs |-> [k \in 1..NumEq |-> 0]]

\* The update vector whose only nonzero component is that of DOF d.
UnitUpdate(d) == [i \in AllDofs |-> [k \in 1..NumEq |-> IF i = d THEN -2 ELSE 0]]

\* Update vectors with at most one nonzero component.
UnitUpdates == { UnitUpdate(d) : d \in AllDofs \cup {-1} }

\* The update vectors of the assembly runs.
AsmUpdates == {ZeroUpdate, UnitUpdate(1)}

\* An update on the chain of 4 DOFs that gives the errors 0.5, 0.01, 0, 0: with
\* the tolerance 0.01 only DOF 0 is above the tolerance and DOF 1 shares an
\* element with it.
NeighbourUpdate == (0 :> <<-50>>) @@ (1 :> <<1>>) @@ (2 :> <<0>>) @@ (3 :> <<0>>)

\* The update vectors of the colouring runs.
ColorUpdates ==
    IF gridName = "Chain4" THEN {ZeroUpdate, ScenarioUpdate, NeighbourUpdate}
    ELSE SmallUpdates

\* The tolerances of the colouring runs; the scenario uses 0.01.
ColorTols == IF gridName = "Chain4" THEN {1} ELSE TolVals

\* -------------------------------------------------------------------- specs
\* The colouring runs: partial relinearization without recycling. The linear
\* system plays no part in them: the evaluator always succeeds, all its
\* contributions are zero (iterate 0), and the vectors start zeroed.
Init == InitOn(ColorGrids, {TRUE}, {FALSE}, {1}, {0})

Next ==
    \/ RelinearizeAll
    \/ \E yesno \in BOOLEAN : SetLinearizationReusable(yesno)
    \/ \E previousResid \in ColorUpdates : UpdateDiscrepancy(previousResid)
    \/ \E r \in Ranks : \E i \in Dofs(r) : MarkDofRed(r, i)
    \/ \E tolerance \in ColorTols : ComputeColors(tolerance)
    \/ Assemble(0, 1, [r \in Ranks |-> 0])

Spec == Init /\ [][Next]_vars

\* The plain runs: no partial relinearization; every iterate, time-step size
\* and evaluator failure.
PlainInit == InitOn(PlainGrids, {FALSE}, BOOLEAN, DtVals, UninitVals)

PlainNext ==
    \/ RelinearizeAll
    \/ \E yesno \in BOOLEAN : SetLinearizationReusable(yesno)
    \/ \E previousResid \in UnitUpdates : UpdateDiscrepancy(previousResid)
    \/ \E r \in Ranks : \E i \in Dofs(r) : MarkDofRed(r, i)
    \/ \E tolerance \in TolVals : ComputeColors(tolerance)
    \/ \E version \in Versions : \E curDt \in DtVals :
         \E failAt \in [Ranks -> 0..MaxElems] : Assemble(version, curDt, failAt)

PlainSpec == PlainInit /\ [][PlainNext]_vars

\* The assembly runs: partial relinearization; every iterate, time-step size
\* and evaluator failure.
AsmInit == InitOn(AsmGrids, {TRUE}, {TRUE}, DtVals, UninitVals)

AsmNext ==
    \/ RelinearizeAll
    \/ \E yesno \in BOOLEAN : SetLinearizationReusable(yesno)
    \/ \E previousResid \in AsmUpdates : UpdateDiscrepancy(previousResid)
    \/ \E r \in Ranks : \E i \in Dofs(r) : MarkDofRed(r, i)
    \/ ComputeColors(1)
    \/ \E curDt \in DtVals : \E failAt \in [Ranks -> 0..MaxElems] :
         Assemble(numAssemble + 1, curDt, failAt)

AsmSpec == AsmInit /\ [][AsmNext]_vars

\* The recycling runs: partial relinearization and recycling, every iterate
\* and time-step size; the evaluator does not throw and the Newton updates
\* are zero, so that DOFs turn Red by markDofRed and relinearizeAll only.
RecycleInit == InitOn(AsmGrids, {TRUE}, {TRUE}, DtVals, UninitVals)

RecycleNext ==
    \/ RelinearizeAll
    \/ \E yesno \in BOOLEAN : SetLinearizationReusable(yesno)
    \/ UpdateDiscrepancy(ZeroUpdate)
    \/ \E r \in Ranks : \E i \in Dofs(r) : MarkDofRed(r, i)
    \/ ComputeColors(1)
    \/ \E curDt \in DtVals : Assemble(numAssemble + 1, curDt, [r \in Ranks |-> 0])

RecycleSpec == RecycleInit /\ [][RecycleNext]_vars

\* ------------------------------------------------------------ Newton method
\* The Newton method calls the assembler by the names reassembleAll,
\* setMatrixReuseable and updateDiscrepancy(uLastIter, deltaU); they stand for
\* relinearizeAll, setLinearizationReusable and updateDiscrepancy.  It reads
\* its own parameters EnablePartialReassemble and EnableJacobianRecycling,
\* which are not the parameters the assembler reads.
\*
\* In the Newton runs tolerances and DOF errors are counted in units of 1e-6
\* and the nonlinear error in units of 1e-3, so that the square of the error
\* is in units of 1e-6.

\* A value that is not finite (an infinity or a NaN).
Inf == 1000000

\* std::isfinite
IsFinite(x) == Abs(x) < Inf

\* The sum of the squares of the first k components of a block; a component
\* that is not finite makes the sum not finite.
RECURSIVE BlockSquares(_, _)
BlockSquares(blk, k) ==
    IF k = 0 THEN 0
    ELSE IF ~IsFinite(blk[k]) \/ ~IsFinite(BlockSquares(blk, k - 1)) THEN Inf
    ELSE Min(Inf, BlockSquares(blk, k - 1) + blk[k] * blk[k])

\* deltaU.two_norm2(): the sum of the squares of all components.
RECURSIVE SumSquares(_, _)
SumSquares(deltaU, ds) ==
    IF ds = {} THEN 0
    ELSE LET i == CHOOSE x \in ds : TRUE
             rest == SumSquares(deltaU, ds \ {i})
             sq == BlockSquares(deltaU[i], Len(deltaU[i]))
         IN IF ~IsFinite(rest) \/ ~IsFinite(sq) THEN Inf ELSE Min(Inf, rest + sq)

TwoNorm2(deltaU) == SumSquares(deltaU, DOMAIN deltaU)

\* maxReasmTol = 1e-4
MaxReasmTol == 100

\* reassembleTol with the clamps applied in the opposite order.
ReassembleTolMinLast(error, tolerance) ==
    Min(MaxReasmTol, Max(10 * tolerance, error * error))

\* The tolerance update_ passes to computeColors.
ReassembleTol(error, tolerance) ==
    Max(10 * tolerance, Min(MaxReasmTol, error * error))

\* The largest absolute value of a component of the solution in the runs.
MaxSol == 150

\* update_ without the test of the update for non-finite values.
UpdateUnchecked(partialReassemble, error, tolerance, deltaU) ==
    /\ \A i \in DOMAIN deltaU : \A k \in 1..NumEq :
          ~IsFinite(deltaU[i][k]) \/ Abs(uCurrentIter[i][k] - deltaU[i][k]) <= MaxSol
    /\ IF partialReassemble /\ enablePartialRelinearization
       THEN Colorize([r \in Ranks |-> UpdatedError(r, deltaU)],
                     ReassembleTol(error, tolerance))
       ELSE UNCHANGED << dofColor, dofError, elementColor,
                         nextRelinearizationAccuracy >>
    /\ uCurrentIter' =
         [i \in DOMAIN uCurrentIter |->
            [k \in 1..NumEq |->
               IF IsFinite(deltaU[i][k]) THEN uCurrentIter[i][k] - deltaU[i][k]
               ELSE Inf]]
    /\ last' = [NoOp EXCEPT !.op = "update_", !.flag = partialReassemble,
                                    !.nonFinite = \E i \in DOMAIN deltaU : \E k \in 1..NumEq :
                                                     ~IsFinite(deltaU[i][k]),
                            !.error = error, !.finalTol = tolerance,
                            !.tol = ReassembleTol(error, tolerance)]
    /\ UNCHANGED << gridName, proc, enablePartialRelinearization,
                    enableLinearizationRecycling, matrix, residual,
                    reuseLinearization, storageJacobian, storageTerm, oldDt,
                    greenElems, relinearizationAccuracy, numAssemble >>

\* update_(uCurrentIter, uLastIter, deltaU), uLastIter being the solution
\* before the call; partialReassemble: the parameter EnablePartialReassemble;
\* error, tolerance: error_ and tolerance_().
Update(partialReassemble, error, tolerance, deltaU) ==
    /\ IsFinite(TwoNorm2(deltaU)) =>
          \A i \in DOMAIN deltaU : \A k \in 1..NumEq :
             Abs(uCurrentIter[i][k] - deltaU[i][k]) <= MaxSol
    /\ IF ~IsFinite(TwoNorm2(deltaU))
       THEN /\ last' = [NoOp EXCEPT !.op = "update_", !.threw = TRUE,
                                    !.flag = partialReassemble,
                                    !.nonFinite = \E i \in DOMAIN deltaU : \E k \in 1..NumEq :
                                                     ~IsFinite(deltaU[i][k]),
                                    !.error = error, !.finalTol = tolerance]
            /\ UNCHANGED << dofColor, dofError, elementColor,
                            nextRelinearizationAccuracy, uCurrentIter >>
       ELSE /\ IF partialReassemble /\ enablePartialRelinearization
               THEN Colorize([r \in Ranks |-> UpdatedError(r, deltaU)],
                             ReassembleTol(error, tolerance))
               ELSE UNCHANGED << dofColor, dofError, elementColor,
                                 nextRelinearizationAccuracy >>
            /\ uCurrentIter' =
                 [i \in DOMAIN uCurrentIter |->
                    [k \in 1..NumEq |-> uCurrentIter[i][k] - deltaU[i][k]]]
            /\ last' = [NoOp EXCEPT !.op = "update_", !.flag = partialReassemble,
                                    !.nonFinite = \E i \in DOMAIN deltaU : \E k \in 1..NumEq :
                                                     ~IsFinite(deltaU[i][k]),
                                    !.error = error, !.finalTol = tolerance,
                                    !.tol = ReassembleTol(error, tolerance)]
    /\ UNCHANGED << gridName, proc, enablePartialRelinearization,
                    enableLinearizationRecycling, matrix, residual,
                    reuseLinearization, storageJacobian, storageTerm, oldDt,
                    greenElems, relinearizationAccuracy, numAssemble >>

\* failed_ that leaves the assembler alone.
FailedParentOnly ==
    /\ last' = [NoOp EXCEPT !.op = "failed_",
                            !.pending = \E r \in Ranks : reuseLinearization[r]]
    /\ UNCHANGED progVars
    /\ UNCHANGED << numAssemble, uCurrentIter, proc >>

\* failed_(); ParentType::failed_() does not touch the assembler.
Failed ==
    /\ DoRelinearizeAll
    /\ last' = [NoOp EXCEPT !.op = "failed_",
                            !.pending = \E r \in Ranks : reuseLinearization[r]]

\* succeeded_(); jacobianRecycling: the parameter EnableJacobianRecycling.
Succeeded(jacobianRecycling) ==
    /\ IF jacobianRecycling
       THEN DoSetLinearizationReusable(TRUE)
       ELSE DoRelinearizeAll
    /\ last' = [NoOp EXCEPT !.op = "succeeded_", !.flag = jacobianRecycling]

\* The update with a non-finite component.
NonFiniteUpdate == [i \in AllDofs |-> [k \in 1..NumEq |-> IF i = 2 THEN Inf ELSE -2]]

\* The update that gives the errors 1.5e-4, 2e-6 and 0.
MixedUpdate ==
    [i \in AllDofs |-> [k \in 1..NumEq |-> IF i = 0 THEN -150 ELSE IF i = 1 THEN -2 ELSE 0]]

\* The updates of the Newton runs.
NewtonUpdates == {ZeroUpdate, MixedUpdate, NonFiniteUpdate}

\* The pairs of nonlinear error and final tolerance of the Newton runs; they
\* give the relinearization tolerances 0, 1e-4 and 2e-4.
NewtonInputs == {<<0, 0>>, <<10, 0>>, <<0, 20>>}

NewtonInit == InitOn(AsmGrids, BOOLEAN, BOOLEAN, {1}, {0})

NewtonNext ==
    \/ \E partialReassemble \in BOOLEAN : \E in \in NewtonInputs :
       \E deltaU \in NewtonUpdates :
          Update(partialReassemble, in[1], in[2], deltaU)
    \/ Failed
    \/ \E jacobianRecycling \in BOOLEAN : Succeeded(jacobianRecycling)
    \/ RelinearizeAll
    \/ \E yesno \in BOOLEAN : SetLinearizationReusable(yesno)
    \/ \E failAt \in [Ranks -> {0, 1}] : Assemble(numAssemble + 1, 1, failAt)

NewtonSpec == NewtonInit /\ [][NewtonNext]_vars

\* The partial assembly runs: partial relinearization and recycling on a
\* one-rank chain, where an assembly can meet Red, Yellow and Green elements
\* at once, and on a two-rank grid with an overlap element; the evaluator
\* may throw at any interior element.
PartialGrids == {"Chain4", "Overlap"}

PartialInit == InitOn(PartialGrids, {TRUE}, {TRUE}, {1}, {0})

PartialNext ==
    \/ RelinearizeAll
    \/ \E yesno \in BOOLEAN : SetLinearizationReusable(yesno)
    \/ \E previousResid \in {ZeroUpdate, UnitUpdate(0)} : UpdateDiscrepancy(previousResid)
    \/ ComputeColors(1)
    \/ \E failAt \in [Ranks -> 0..MaxElems] : Assemble(numAssemble + 1, 1, failAt)

PartialSpec == PartialInit /\ [][PartialNext]_vars

\* The runs of update_ alone over a range of nonlinear errors and final
\* tolerances.
MaxError == 12
MaxFinalTol == 12

ToleranceInit == InitOn(AsmGrids, {TRUE}, {FALSE}, {1}, {0})

ToleranceNext ==
    \E partialReassemble \in BOOLEAN : \E error \in 0..MaxError :
    \E tolerance \in 0..MaxFinalTol : \E deltaU \in {ZeroUpdate, NonFiniteUpdate} :
        Update(partialReassemble, error, tolerance, deltaU)

ToleranceSpec == ToleranceInit /\ [][ToleranceNext]_vars

\* The end of computeColors() alone: the second border exchange and the
\* promotion loop, applied to DOF colours cols as the demotion pass may leave
\* them on the ranks.
SecondExchange(cols) ==
    /\ enablePartialRelinearization
    /\ \E col5 \in {MaxExchange(cols)} :
         /\ dofColor' = [r \in Ranks |-> PromoteOrangeDofs(col5[r])]
         /\ dofError' = [r \in Ranks |-> ResetRedErrors(col5[r], dofError[r])]
    /\ last' = [NoOp EXCEPT !.op = "secondExchange", !.cols = cols]
    /\ UNCHANGED << gridName, proc, uCurrentIter, enablePartialRelinearization,
                    enableLinearizationRecycling, matrix, residual,
                    reuseLinearization, storageJacobian, storageTerm, oldDt,
                    elementColor, greenElems, nextRelinearizationAccuracy,
                    relinearizationAccuracy, numAssemble >>

\* The runs of the second exchange on the two-rank grid, over every colouring
\* of the DOFs of the two ranks.
ExchangeInit == InitOn({"TwoRank"}, {TRUE}, {FALSE}, {1}, {0})

ExchangeNext ==
    \E c1 \in [Dofs(1) -> {Red, Yellow, Orange, Green}] :
    \E c2 \in [Dofs(2) -> {Red, Yellow, Orange, Green}] :
        SecondExchange(<< c1, c2 >>)

ExchangeSpec == ExchangeInit /\ [][ExchangeNext]_vars

\* ------------------------------------------- computeColors, element by element
\* The element loops of computeColors as loops: each pass visits the elements
\* of the rank one after the other, in an order the grid view decides, and
\* writes the colours in place.

\* The orders in which a loop may visit n elements.
Orders(n) == { p \in [1..n -> 1..n] : \A a, b \in 1..n : p[a] = p[b] => a = b }

\* The body of the red-element loop if it also looked at the colour of the
\* element before it in the index order.
RedElementStepNeighbour(r, e, col, ecol) ==
    [ecol EXCEPT ![e] =
        IF \/ \E i \in StencilDofs(r, e) : col[i] = Red
           \/ (e > 1 /\ ecol[e - 1] = Red)
        THEN Red ELSE Green]

\* The body of the loop that marks the red elements, for element e.
RedElementStep(r, e, col, ecol) ==
    [ecol EXCEPT ![e] =
        IF \E i \in StencilDofs(r, e) : col[i] = Red THEN Red ELSE Green]

\* The body of the loop that marks yellow DOFs (as orange), for element e.
OrangeDofStep(r, e, ecol, col) ==
    IF ecol[e] # Red THEN col
    ELSE [i \in DOMAIN col |->
            IF i \in StencilDofs(r, e) /\ col[i] # Red THEN Orange ELSE col[i]]

\* The body of the loop that marks the yellow elements, for element e.
YellowElementStep(r, e, col, ecol) ==
    IF ecol[e] = Red THEN ecol
    ELSE IF \E i \in StencilDofs(r, e) : col[i] = Orange
    THEN [ecol EXCEPT ![e] = Yellow]
    ELSE ecol

\* The body of the demotion loop, for element e.
DemoteStep(r, e, ecol, col) ==
    IF ecol[e] # Green THEN col
    ELSE [i \in DOMAIN col |->
            IF i \in StencilDofs(r, e) /\ col[i] = Orange THEN Yellow ELSE col[i]]

\* The four loops, from the k-th element of the order on.
RECURSIVE RedElementsLoop(_, _, _, _, _)
RedElementsLoop(r, order, k, col, ecol) ==
    IF k > Len(order) THEN ecol
    ELSE RedElementsLoop(r, order, k + 1, col, RedElementStep(r, order[k], col, ecol))

RECURSIVE OrangeDofsLoop(_, _, _, _, _)
OrangeDofsLoop(r, order, k, ecol, col) ==
    IF k > Len(order) THEN col
    ELSE OrangeDofsLoop(r, order, k + 1, ecol, OrangeDofStep(r, order[k], ecol, col))

RECURSIVE YellowElementsLoop(_, _, _, _, _)
YellowElementsLoop(r, order, k, col, ecol) ==
    IF k > Len(order) THEN ecol
    ELSE YellowElementsLoop(r, order, k + 1, col,
                            YellowElementStep(r, order[k], col, ecol))

RECURSIVE DemoteLoop(_, _, _, _, _)
DemoteLoop(r, order, k, ecol, col) ==
    IF k > Len(order) THEN col
    ELSE DemoteLoop(r, order, k + 1, ecol, DemoteStep(r, order[k], ecol, col))

\* computeColors(tolerance) has left the primed colours and errors: the four
\* element loops of rank r visit the elements in the orders ord[r][1] ..
\* ord[r][4].
ColorsInOrder(tolerance, ord) ==
    \E col1 \in {[r \in Ranks |-> MarkRedDofs(dofColor[r], dofError[r], tolerance)]} :
    \E ecol1 \in {[r \in Ranks |->
                     RedElementsLoop(r, ord[r][1], 1, col1[r], elementColor[r])]} :
    \E col2 \in {[r \in Ranks |->
                    OrangeDofsLoop(r, ord[r][2], 1, ecol1[r], col1[r])]} :
    \E col3 \in {MinExchange(col2)} :
    \E ecol2 \in {[r \in Ranks |->
                     YellowElementsLoop(r, ord[r][3], 1, col3[r], ecol1[r])]} :
    \E col4 \in {[r \in Ranks |-> DemoteLoop(r, ord[r][4], 1, ecol2[r], col3[r])]} :
    \E col5 \in {MaxExchange(col4)} :
        /\ nextRelinearizationAccuracy' =
             [r \in Ranks |-> NextAccuracy(dofError[r], tolerance)]
        /\ elementColor' = ecol2
        /\ dofColor' = [r \in Ranks |-> PromoteOrangeDofs(col5[r])]
        /\ dofError' = [r \in Ranks |-> ResetRedErrors(col5[r], dofError[r])]

\* The orders in which a loop may visit the three elements of the chain.
ChainOrders == Orders(3)

\* The orders of the four loops on the one rank of the chain.
LoopOrders == { << o >> : o \in [1..4 -> ChainOrders] }

\* The index order of the elements, in every loop of every rank.
IndexOrders == [r \in Ranks |-> [k \in 1..4 |-> [e \in 1..Len(Elems(r)) |-> e]]]

ComputeColorsInOrder(tolerance, ord) ==
    /\ enablePartialRelinearization
    /\ ColorsInOrder(tolerance, ord)
    /\ last' = [NoOp EXCEPT !.op = "computeColors", !.tol = tolerance]
    /\ UNCHANGED << gridName, proc, uCurrentIter, enablePartialRelinearization,
                    enableLinearizationRecycling, matrix, residual,
                    reuseLinearization, storageJacobian, storageTerm, oldDt,
                    greenElems, relinearizationAccuracy, numAssemble >>

\* The order runs on the chain of 4 DOFs: every loop of computeColors visits
\* the three elements in any order.
OrderUpdates == {ScenarioUpdate, NeighbourUpdate, UnitUpdate(1)}

OrderInit == InitOn({"Chain4"}, {TRUE}, {FALSE}, {1}, {0})

OrderNext ==
    \/ RelinearizeAll
    \/ \E previousResid \in OrderUpdates : UpdateDiscrepancy(previousResid)
    \/ \E ord \in LoopOrders : ComputeColorsInOrder(1, ord)
    \/ Assemble(0, 1, [r \in Ranks |-> 0])

OrderSpec == OrderInit /\ [][OrderNext]_vars

\* The error runs: partial relinearization on the two-rank grid with an
\* overlap element, whose DOF 2 has no volume on rank 1; the Newton updates
\* move no DOF, DOF 0 or DOF 2.
ErrorUpdates == {ZeroUpdate, UnitUpdate(0), UnitUpdate(2)}

ErrorInit == InitOn({"Overlap"}, {TRUE}, {FALSE}, {1}, {0})

ErrorNext ==
    \/ RelinearizeAll
    \/ \E previousResid \in ErrorUpdates : UpdateDiscrepancy(previousResid)
    \/ \E r \in Ranks : \E i \in Dofs(r) : MarkDofRed(r, i)
    \/ \E tolerance \in TolVals : ComputeColors(tolerance)
    \/ Assemble(0, 1, [r \in Ranks |-> 0])

ErrorSpec == ErrorInit /\ [][ErrorNext]_vars

\* ------------------------------------------------- assemble(), rank by rank
\* assemble() as each rank runs it: the local assemble_(), then the
\* collective operations, each of which returns on a rank once every rank has
\* entered its collective operation of the same position and kind.

\* A catch block that throws on without taking part in the min reduction.
EntersMinOnSuccess(ok) == ok

\* Whether a rank enters comm().min(succeeded) after assemble_() returned
\* (ok) or threw Opm::NumericalProblem (~ok): both the try block and the catch
\* block call it.
EntersMin(ok) == TRUE

\* The k-th collective operation since init() has been entered by every rank,
\* as an operation of the given kind.
Entered(k, kind) ==
    \A q \in Ranks : /\ Len(proc[q].calls) >= k
                     /\ proc[q].calls[k].kind = kind

\* The values the ranks contributed to the k-th collective operation.
Contributed(k) == [q \in Ranks |-> proc[q].calls[k].val]

\* The kinds of the collective operations rank r entered in its current call.
CallKinds(r) ==
    [k \in 1..(Len(proc[r].calls) - proc[r].start) |->
        proc[r].calls[proc[r].start + k].kind]

\* bool linearizationReused = reuseLinearization_
BeginAssemble(r) ==
    /\ proc[r].pc = "idle"
    /\ proc[r].round < MaxAssemble
    /\ proc' = [proc EXCEPT ![r] = [pc |-> "local",
                                    reused |-> reuseLinearization[r],
                                    calls |-> proc[r].calls,
                                    start |-> Len(proc[r].calls),
                                    round |-> proc[r].round + 1]]
    /\ UNCHANGED << gridName, enablePartialRelinearization,
                    enableLinearizationRecycling, matrix, residual,
                    reuseLinearization, storageJacobian, storageTerm, oldDt,
                    dofColor, dofError, elementColor, greenElems,
                    nextRelinearizationAccuracy, relinearizationAccuracy,
                    numAssemble, uCurrentIter, last >>

\* try { assemble_(); succeeded = 1; } catch { succeeded = 0; } followed by
\* the entry into comm().min(succeeded).
LocalAssemble(r, failAt) ==
    /\ proc[r].pc = "local"
    /\ failAt \in FailChoices(r)
    /\ \E loc \in {AssembleLocal(r, proc[r].round, 1, failAt)} :
        /\ matrix' = [matrix EXCEPT ![r] = loc.m]
        /\ residual' = [residual EXCEPT ![r] = loc.res]
        /\ storageJacobian' = [storageJacobian EXCEPT ![r] = loc.sj]
        /\ storageTerm' = [storageTerm EXCEPT ![r] = loc.st]
        /\ greenElems' = [greenElems EXCEPT ![r] = loc.green]
    /\ reuseLinearization' = [reuseLinearization EXCEPT ![r] = FALSE]
    /\ oldDt' = [oldDt EXCEPT ![r] = 1]
    /\ proc' = [proc EXCEPT ![r] =
                  IF EntersMin(failAt = 0)
                  THEN [@ EXCEPT !.pc = "min",
                                 !.calls = Append(@, [kind |-> "min",
                                                      val |-> (failAt = 0)])]
                  ELSE [@ EXCEPT !.pc = "thrown"]]
    /\ UNCHANGED << gridName, enablePartialRelinearization,
                    enableLinearizationRecycling, dofColor, dofError,
                    elementColor, nextRelinearizationAccuracy,
                    relinearizationAccuracy, numAssemble, uCurrentIter, last >>

\* comm().min(succeeded) returns; if (!succeeded) OPM_THROW; then the test
\* on linearizationReused and partial relinearization, and the entry into
\* comm().sum(greenElems_).
MinReturns(r) ==
    /\ proc[r].pc = "min"
    /\ Entered(Len(proc[r].calls), "min")
    /\ \E succeeded \in {CommMin(Contributed(Len(proc[r].calls)))} :
         proc' = [proc EXCEPT ![r] =
                    IF ~succeeded THEN [@ EXCEPT !.pc = "thrown"]
                    ELSE IF ~proc[r].reused /\ enablePartialRelinearization
                    THEN [@ EXCEPT !.pc = "sum",
                                   !.calls = Append(@, [kind |-> "sum",
                                                        val |-> greenElems[r]])]
                    ELSE [@ EXCEPT !.pc = "colors"]]
    /\ UNCHANGED << gridName, enablePartialRelinearization,
                    enableLinearizationRecycling, matrix, residual,
                    reuseLinearization, storageJacobian, storageTerm, oldDt,
                    dofColor, dofError, elementColor, greenElems,
                    nextRelinearizationAccuracy, relinearizationAccuracy,
                    numAssemble, uCurrentIter, last >>

\* comm().sum(greenElems_) returns; entry into
\* comm().max(nextRelinearizationAccuracy_).
SumReturns(r) ==
    /\ proc[r].pc = "sum"
    /\ Entered(Len(proc[r].calls), "sum")
    /\ greenElems' = [greenElems EXCEPT
                        ![r] = CommSum(Contributed(Len(proc[r].calls)))]
    /\ proc' = [proc EXCEPT ![r] =
                  [@ EXCEPT !.pc = "max",
                            !.calls = Append(@, [kind |-> "max",
                                                 val |-> nextRelinearizationAccuracy[r]])]]
    /\ UNCHANGED << gridName, enablePartialRelinearization,
                    enableLinearizationRecycling, matrix, residual,
                    reuseLinearization, storageJacobian, storageTerm, oldDt,
                    dofColor, dofError, elementColor,
                    nextRelinearizationAccuracy, relinearizationAccuracy,
                    numAssemble, uCurrentIter, last >>

\* comm().max(nextRelinearizationAccuracy_) returns.
MaxReturns(r) ==
    /\ proc[r].pc = "max"
    /\ Entered(Len(proc[r].calls), "max")
    /\ relinearizationAccuracy' =
         [relinearizationAccuracy EXCEPT
            ![r] = CommMax(Contributed(Len(proc[r].calls)))]
    /\ proc' = [proc EXCEPT ![r] = [@ EXCEPT !.pc = "colors"]]
    /\ UNCHANGED << gridName, enablePartialRelinearization,
                    enableLinearizationRecycling, matrix, residual,
                    reuseLinearization, storageJacobian, storageTerm, oldDt,
                    dofColor, dofError, elementColor, greenElems,
                    nextRelinearizationAccuracy, numAssemble, uCurrentIter, last >>

\* The loop that resets the DOF colours to Green; assemble() returns.
ColorsReset(r) ==
    /\ proc[r].pc = "colors"
    /\ dofColor' = [dofColor EXCEPT ![r] = [i \in DOMAIN dofColor[r] |-> Green]]
    /\ proc' = [proc EXCEPT ![r] = [@ EXCEPT !.pc = "done"]]
    /\ UNCHANGED << gridName, enablePartialRelinearization,
                    enableLinearizationRecycling, matrix, residual,
                    reuseLinearization, storageJacobian, storageTerm, oldDt,
                    dofError, elementColor, greenElems,
                    nextRelinearizationAccuracy, relinearizationAccuracy,
                    numAssemble, uCurrentIter, last >>

\* The caller of rank r goes on after assemble() returned or threw.
CallerGoesOn(r) ==
    /\ proc[r].pc \in {"done", "thrown"}
    /\ proc' = [proc EXCEPT ![r] = [@ EXCEPT !.pc = "idle"]]
    /\ UNCHANGED << gridName, enablePartialRelinearization,
                    enableLinearizationRecycling, matrix, residual,
                    reuseLinearization, storageJacobian, storageTerm, oldDt,
                    dofColor, dofError, elementColor, greenElems,
                    nextRelinearizationAccuracy, relinearizationAccuracy,
                    numAssemble, uCurrentIter, last >>

\* The steps of rank r inside assemble().
RankStep(r) ==
    \/ \E failAt \in 0..MaxElems : LocalAssemble(r, failAt)
    \/ MinReturns(r)
    \/ SumReturns(r)
    \/ MaxReturns(r)
    \/ ColorsReset(r)

\* Every rank is between the same two assemble() calls.
BetweenCalls ==
    \A q \in Ranks : proc[q].pc = "idle" /\ proc[q].round = proc[1].round

\* The rank-by-rank runs on the two-rank grid: between two assemble() calls
\* all ranks get the same reuse request and the same colouring.
StepGrids == {"TwoRank"}

StepInit == InitOn(StepGrids, BOOLEAN, BOOLEAN, {1}, {0})

StepNext ==
    \/ BetweenCalls /\ \E yesno \in BOOLEAN : SetLinearizationReusable(yesno)
    \/ BetweenCalls /\ ComputeColors(1)
    \/ BeginAssemble(1)
    \/ BeginAssemble(2)
    \/ RankStep(1)
    \/ RankStep(2)
    \/ CallerGoesOn(1)
    \/ CallerGoesOn(2)

\* Every rank calls assemble(), and a rank inside assemble() keeps running.
StepFairness ==
    /\ WF_vars(BeginAssemble(1)) /\ WF_vars(BeginAssemble(2))
    /\ WF_vars(RankStep(1)) /\ WF_vars(RankStep(2))
    /\ WF_vars(CallerGoesOn(1)) /\ WF_vars(CallerGoesOn(2))

StepSpec == StepInit /\ [][StepNext]_vars /\ StepFairness

\* =================================================================== claims
\* The program variables, without the record of the last operation and the
\* counter of the bound.
\* The last operation was an assemble() that did not recycle and in which the
\* evaluator threw on no rank.
FullAssembleDone ==
    /\ last.op = "assemble"
    /\ ~last.recycled
    /\ \A r \in Ranks : last.failAt[r] = 0

\* A reference assembler without colouring logic: the interior elements of
\* rank r that it evaluates when the evaluator throws at element failAt.
RefElems(r, failAt) ==
    { e \in InteriorElems(r) : failAt = 0 \/ e < failAt }

\* The Jacobian block (i, j) of the reference assembler: the sum, over the
\* first n elements, of the contributions of the evaluated elements that have
\* i as a primary DOF and j in the stencil.
RECURSIVE RefJacobian(_, _, _, _, _, _)
RefJacobian(r, version, failAt, n, i, j) ==
    IF n = 0 THEN 0
    ELSE RefJacobian(r, version, failAt, n - 1, i, j)
         + (IF n \in RefElems(r, failAt) /\ i \in PrimaryDofs(r, n)
               /\ j \in StencilDofs(r, n)
            THEN EvalJacobian(version, n, LocalIdx(r, n, i), LocalIdx(r, n, j))
            ELSE 0)

\* The residual of DOF i of the reference assembler.
RECURSIVE RefResidual(_, _, _, _, _)
RefResidual(r, version, failAt, n, i) ==
    IF n = 0 THEN 0
    ELSE RefResidual(r, version, failAt, n - 1, i)
         + (IF n \in RefElems(r, failAt) /\ i \in PrimaryDofs(r, n)
            THEN EvalResidual(version, n, LocalIdx(r, n, i))
            ELSE 0)

\* C1: with partial relinearization disabled, after every non-recycled
\* assemble() (whatever operations came before it, and whether or not the
\* evaluator threw) the matrix and the residual of every rank are those of
\* the reference assembler for the same iterate.
C1_PlainAssembleIsReference ==
    (last.op = "assemble" /\ ~last.recycled /\ ~enablePartialRelinearization) =>
        \A r \in Ranks : \A i \in Dofs(r) :
            /\ residual[r][i] =
                 RefResidual(r, last.version, last.failAt[r], Len(Elems(r)), i)
            /\ \A j \in DOMAIN matrix[r][i] :
                 matrix[r][i][j] =
                   RefJacobian(r, last.version, last.failAt[r], Len(Elems(r)), i, j)

\* A second full assembly of a two-rank grid, at the second iterate, after a
\* first one that filled the matrix.
C1_Witness ==
    /\ FullAssembleDone
    /\ ~enablePartialRelinearization
    /\ gridName = "TwoRank"
    /\ numAssemble = 2
    /\ last.version = 2
    /\ matrix[1][0][1] # 0

\* C2: with partial relinearization disabled, dofColor(i) and elementColor(e)
\* return Red for every DOF and element in every state, and markDofRed,
\* updateDiscrepancy and computeColors change no program variable.
C2_DisabledColorsRedOpsNoEffect ==
    [][ ~enablePartialRelinearization =>
          /\ \A r \in Ranks :
               /\ \A i \in Dofs(r) : DofColorOf(r, i) = Red
               /\ \A e \in ElemIdx(r) : ElementColorOf(r, e) = Red
          /\ last'.op \in {"markDofRed", "updateDiscrepancy", "computeColors"} =>
               UNCHANGED progVars ]_vars

\* updateDiscrepancy was called with partial relinearization disabled after
\* an assembly filled the system.
C2_Witness ==
    /\ ~enablePartialRelinearization
    /\ last.op = "updateDiscrepancy"
    /\ numAssemble > 0
    /\ \E r \in Ranks : \E i \in Dofs(r) : residual[r][i] # 0

\* C3: error threshold monotonicity: right after computeColors(tolerance)
\* returns, every DOF whose error was greater than the tolerance when it was
\* called has colour Red, on every rank.
C3_ErrorAboveToleranceIsRed ==
    [][ last'.op = "computeColors" =>
          \A r \in Ranks : \A i \in Dofs(r) :
              dofError[r][i] > last'.tol => dofColor'[r][i] = Red ]_vars

\* computeColors has returned, some error was above the tolerance, and some
\* DOF stayed Green.
C3_Witness ==
    /\ last.op = "computeColors"
    /\ last.above
    /\ \E r \in Ranks : \E i \in Dofs(r) : dofColor[r][i] = Green

C5_GreenElementHasNoRedDof ==
    last.op = "computeColors" =>
        \A r \in Ranks : \A e \in ElemIdx(r) :
            elementColor[r][e] = Green =>
                \A i \in StencilDofs(r, e) : dofColor[r][i] # Red

\* C6: computeColors(tolerance) called right after relinearizeAll() leaves
\* every DOF and every element Red.
C6_RelinearizeAllThenComputeColors ==
    [][ (last.op = "relinearizeAll" /\ last'.op = "computeColors") =>
          \A r \in Ranks :
              /\ \A i \in Dofs(r) : dofColor'[r][i] = Red
              /\ \A e \in ElemIdx(r) : elementColor'[r][e] = Red ]_vars

\* computeColors(0) has returned right after a relinearizeAll() that followed
\* an assembly (which had made every DOF Green).
C6_Witness ==
    /\ last.op = "computeColors"
    /\ last.afterRelinearizeAll
    /\ last.tol = 0
    /\ gridName = "TwoRank"
    /\ \E r \in Ranks : relinearizationAccuracy[r] > 0

\* C7: recycling algebra: in a recycled assemble() with step sizes dt_old and
\* dt_new, for every DOF i the new diagonal block is
\* J_orig - J_s + J_s * (dt_old / dt_new), stated without the division as
\* dt_new * (J_new - J_orig + J_s) = J_s * dt_old, and the new residual is
\* -R_s.
C7_RecyclingAlgebra ==
    [][ (last'.op = "assemble" /\ last'.recycled) =>
          \A r \in Ranks : \A i \in Dofs(r) :
              /\ oldDt'[r] * (matrix'[r][i][i] - matrix[r][i][i] + storageJacobian[r][i])
                   = storageJacobian[r][i] * oldDt[r]
              /\ residual'[r][i] = 0 - storageTerm[r][i] ]_vars

\* A recycled assemble() has halved a nonzero cached storage Jacobian: its
\* value is no multiple of the evaluator's unit any more.
C7_Witness ==
    /\ last.op = "assemble"
    /\ last.recycled
    /\ \E r \in Ranks : \E i \in Dofs(r) :
         /\ storageJacobian[r][i] % Scale # 0
         /\ residual[r][i] # 0

\* C8: collective failure propagation: after an assemble() on several ranks,
\* every rank reports success if the evaluator threw on no rank, and every
\* rank reports failure if it threw on at least one.
C8_CollectiveFailure ==
    (last.op = "assemble" /\ Cardinality(Ranks) > 1) =>
        \A r \in Ranks :
            last.reported[r] <=> (\A q \in Ranks : last.failAt[q] = 0)

\* The evaluator threw on rank 1 only, and rank 2 reports failure.
C8_Witness ==
    /\ last.op = "assemble"
    /\ Cardinality(Ranks) > 1
    /\ last.failAt[1] # 0
    /\ last.failAt[2] = 0
    /\ ~last.reported[2]

\* The scenario of C9 is about to run: the chain of 4 DOFs, every DOF Green,
\* the errors 0.5, 0, 0, 0.02.
ScenarioReady ==
    /\ gridName = "Chain4"
    /\ \A i \in Dofs(1) : dofColor[1][i] = Green
    /\ dofError[1][0] = 50 /\ dofError[1][1] = 0
    /\ dofError[1][2] = 0 /\ dofError[1][3] = 2

\* C9 as stated: computeColors(0.01) in the scenario leaves DOF 0 and DOF 3
\* Red, every element touching them Red, DOF 1 Yellow, and DOF 2 Green if
\* its sole element is Green.
C9_Scenario ==
    [][ (ScenarioReady /\ last'.op = "computeColors" /\ last'.tol = 1) =>
          /\ dofColor'[1][0] = Red
          /\ dofColor'[1][3] = Red
          /\ \A e \in ElemIdx(1) :
               (0 \in StencilDofs(1, e) \/ 3 \in StencilDofs(1, e))
                   => elementColor'[1][e] = Red
          /\ dofColor'[1][1] = Yellow
          /\ (\A e \in ElemIdx(1) :
                (2 \in StencilDofs(1, e) /\ ~(3 \in StencilDofs(1, e)))
                    => elementColor'[1][e] = Green)
               => dofColor'[1][2] = Green ]_vars

\* C10 as stated, for an assemble() called right after markDofRed(i): a
\* non-recycled assemble() in which the evaluator does not throw leaves in
\* row i the Jacobian contribution of every interior element that has i as a
\* primary DOF.
C10_MarkedRowRelinearized ==
    [][ (/\ enablePartialRelinearization
         /\ last.op = "markDofRed"
         /\ last'.op = "assemble"
         /\ ~last'.recycled
         /\ \A r \in Ranks : last'.failAt[r] = 0) =>
          \A j \in DOMAIN matrix'[last.rank][last.dof] :
              matrix'[last.rank][last.dof][j] =
                RefJacobian(last.rank, last'.version, 0, Len(Elems(last.rank)),
                            last.dof, j) ]_vars

\* C11: relinearizeAll() cancels a pending recycling request on every rank
\* and, with partial relinearization enabled, leaves every DOF colour and
\* every element colour Red and every DOF error zero, whatever the state it
\* is called in.
C11_RelinearizeAllResets ==
    [][last'.op = "relinearizeAll" =>
         /\ \A r \in Ranks : ~reuseLinearization'[r]
         /\ enablePartialRelinearization =>
              \A r \in Ranks :
                 /\ \A i \in Dofs(r) : dofColor'[r][i] = Red /\ dofError'[r][i] = 0
                 /\ \A e \in ElemIdx(r) : elementColor'[r][e] = Red]_vars

\* relinearizeAll() was called with a recycling request pending and a
\* nonzero DOF error.
C11_Witness ==
    /\ last.op = "relinearizeAll"
    /\ last.pending
    /\ last.above
    /\ enablePartialRelinearization
    /\ \A r \in Ranks : ~reuseLinearization[r]

\* C12: the assemble() that follows failed_() is not recycled and not
\* partial: the matrix and the residual it leaves on every rank are those of
\* the reference assembler, which zeroes everything and evaluates every
\* interior element in full, even if a recycling request was pending or
\* colours had been computed when failed_() was called.
C12_AssembleAfterFailedIsFull ==
    [][(last.op = "failed_" /\ last'.op = "assemble") =>
         /\ ~last'.recycled
         /\ \A r \in Ranks : \A i \in Dofs(r) :
               /\ residual'[r][i] =
                    RefResidual(r, last'.version, last'.failAt[r], Len(Elems(r)), i)
               /\ \A j \in DOMAIN matrix'[r][i] :
                    matrix'[r][i][j] =
                      RefJacobian(r, last'.version, last'.failAt[r],
                                  Len(Elems(r)), i, j)]_vars

\* A second assembly right after a failed_() that was called with a
\* recycling request pending, partial relinearization being enabled.
C12_Witness ==
    /\ last.op = "assemble"
    /\ last.prev = "failed_"
    /\ last.pending
    /\ enablePartialRelinearization
    /\ numAssemble = 2
    /\ \A r \in Ranks : last.failAt[r] = 0
    /\ matrix[1][0][1] # 0

\* C13: the assemble() that follows succeeded_() either takes the recycled
\* path or is a full relinearization that finds every DOF and every element
\* Red, whatever the values of EnableJacobianRecycling and
\* EnableLinearizationRecycling.
C13_AssembleAfterSucceeded ==
    [][(last.op = "succeeded_" /\ last'.op = "assemble") =>
         \/ last'.recycled
         \/ \A r \in Ranks :
               /\ \A i \in Dofs(r) : DofColorOf(r, i) = Red
               /\ \A e \in ElemIdx(r) : ElementColorOf(r, e) = Red]_vars

\* The life of a recycling request in one step.  With recycling enabled,
\* setLinearizationReusable(yesno) leaves the request pending exactly when
\* yesno is true, so that setLinearizationReusable(false) cancels it; a request
\* becomes pending only through a call with true; the assemble() that finds
\* it pending takes the recycled path (it evaluates no element: the residual
\* becomes the negated cached storage term and the off-diagonal blocks stay
\* as they were) and consumes it, and an assemble() that finds none pending
\* recomputes the residual from the interior elements.
RequestLifeCycle ==
    /\ (last'.op = "setLinearizationReusable" /\ enableLinearizationRecycling) =>
         \A r \in Ranks : reuseLinearization'[r] = last'.yesno
    /\ (\E r \in Ranks : reuseLinearization'[r] /\ ~reuseLinearization[r]) =>
         /\ enableLinearizationRecycling
         /\ \/ last'.op = "setLinearizationReusable" /\ last'.yesno
            \/ last'.op = "succeeded_" /\ last'.flag
    /\ last'.op = "assemble" =>
         /\ \A r \in Ranks : ~reuseLinearization'[r]
         /\ \A r \in Ranks :
              IF reuseLinearization[r]
              THEN /\ last'.recycled
                   /\ \A i \in Dofs(r) :
                        /\ residual'[r][i] = (-1) * storageTerm[r][i]
                        /\ \A j \in DOMAIN matrix[r][i] \ {i} :
                             matrix'[r][i][j] = matrix[r][i][j]
              ELSE /\ ~last'.recycled
                   /\ \A i \in Dofs(r) :
                        residual'[r][i] =
                          RefResidual(r, last'.version, last'.failAt[r],
                                      Len(Elems(r)), i)

\* C14 as stated: a recycling request is one-shot, and once made it stays
\* pending until the next assemble() unless setLinearizationReusable(false)
\* cancels it.
C14_OnlySetFalseCancels ==
    [][/\ RequestLifeCycle
       /\ (\E r \in Ranks : reuseLinearization[r] /\ ~reuseLinearization'[r]) =>
            \/ last'.op = "assemble"
            \/ last'.op = "setLinearizationReusable" /\ ~last'.yesno]_vars

\* C14: a recycling request is one-shot, and once made it stays pending until
\* the next assemble() unless setLinearizationReusable(false) or a request
\* for a full relinearization (relinearizeAll(), also when made by failed_()
\* or succeeded_()) cancels it.
C14_RecyclingRequestOneShot ==
    [][/\ RequestLifeCycle
       /\ (\E r \in Ranks : reuseLinearization[r] /\ ~reuseLinearization'[r]) =>
            \/ last'.op = "assemble"
            \/ last'.op = "setLinearizationReusable" /\ ~last'.yesno
            \/ last'.op \in {"relinearizeAll", "failed_"}
            \/ last'.op = "succeeded_" /\ ~last'.flag]_vars

\* A non-recycled assemble() right after a recycled one: the request made
\* before the first of the two was used up by it.
C14_Witness ==
    /\ last.op = "assemble"
    /\ ~last.recycled
    /\ last.prev = "assemble"
    /\ last.prevRecycled
    /\ enableLinearizationRecycling
    /\ \A r \in Ranks : ~reuseLinearization[r]

\* C15 as stated: after a successful non-recycled assemble() with partial
\* relinearization enabled, relinearizationAccuracy() is, on every rank, the
\* largest error among the DOFs of all ranks that the preceding
\* computeColors() left Green.
C15_AccuracyIsMaxGreenError ==
    [][(/\ last.op = "computeColors"
        /\ last'.op = "assemble"
        /\ ~last'.recycled
        /\ \A r \in Ranks : last'.reported[r]
        /\ enablePartialRelinearization) =>
          \A r \in Ranks :
             relinearizationAccuracy'[r] =
               SetMax(UNION { { dofError[q][i] :
                                   i \in { d \in Dofs(q) : dofColor[q][d] = Green } } :
                              q \in Ranks })]_vars

\* C16: with partial relinearization disabled relinearizationAccuracy()
\* returns 0 on every rank in every reachable state.
C16_DisabledAccuracyZero ==
    ~enablePartialRelinearization =>
        \A r \in Ranks : relinearizationAccuracy[r] = 0

\* A second successful full assembly on two ranks with partial
\* relinearization disabled, after which the accuracy is still 0.
C16_Witness ==
    /\ ~enablePartialRelinearization
    /\ FullAssembleDone
    /\ gridName = "TwoRank"
    /\ numAssemble = 2
    /\ \A r \in Ranks : relinearizationAccuracy[r] = 0

\* C17: after init() the rows of the Jacobian are the DOFs of the rank, and
\* row i has a block at column j exactly when some element of the rank has i
\* among its primary DOFs and j among the DOFs of its stencil.
C17_SparsityPattern ==
    last.op = "init" =>
        \A r \in Ranks :
            /\ DOMAIN matrix[r] = Dofs(r)
            /\ \A i \in Dofs(r) : \A j \in AllDofs :
                  j \in DOMAIN matrix[r][i]
                    <=> \E e \in ElemIdx(r) :
                           i \in PrimaryDofs(r, e) /\ j \in StencilDofs(r, e)

\* The state after init() on the element-centred grid, where the pattern is
\* not symmetric: row 1 has a block at column 2, row 2 has none at column 1.
C17_Witness ==
    /\ last.op = "init"
    /\ gridName = "Ecfv"
    /\ 2 \in DOMAIN matrix[1][1]
    /\ 1 \notin DOMAIN matrix[1][2]

\* C18: no step changes the nonzero pattern of the Jacobian, and every block
\* assemble() may write to (element accumulation, recycled update of the
\* diagonal) is an entry of the pattern.
C18_PatternFixed ==
    [][\A r \in Ranks :
          /\ DOMAIN matrix'[r] = DOMAIN matrix[r]
          /\ \A i \in DOMAIN matrix[r] : DOMAIN matrix'[r][i] = DOMAIN matrix[r][i]
          /\ \A w \in BlockWrites(r) :
                w[1] \in DOMAIN matrix[r] /\ w[2] \in DOMAIN matrix[r][w[1]]]_vars

\* A recycled assemble() after a full one on the grid with an overlap
\* element, where rank 1 holds a DOF that no interior element of it has as a
\* primary DOF.
C18_Witness ==
    /\ last.op = "assemble"
    /\ last.recycled
    /\ gridName = "Overlap"
    /\ numAssemble >= 1
    /\ matrix[1][0][1] # 0
    /\ 2 \in DOMAIN matrix[1][2]

\* C19: update_ rejects an update that holds a non-finite component before
\* it changes anything: it throws, and the DOF errors, the DOF and element
\* colours, the solution and every other variable of the assembler are what
\* they were before the call.
C19_NonFiniteUpdateRejected ==
    [][(last'.op = "update_" /\ last'.nonFinite) =>
         /\ last'.threw
         /\ UNCHANGED << dofError, dofColor, elementColor, uCurrentIter >>
         /\ UNCHANGED progVars]_vars

\* update_ threw on a non-finite update given to it with partial
\* reassembly enabled on both sides, while some DOF was Green and the
\* solution was no longer the initial one.
C19_Witness ==
    /\ last.op = "update_"
    /\ last.nonFinite
    /\ last.threw
    /\ last.flag
    /\ enablePartialRelinearization
    /\ \E i \in Dofs(1) : dofColor[1][i] = Green
    /\ uCurrentIter[0][1] # 0

\* C20 as stated: whatever the nonlinear error and the final tolerance, the
\* tolerance update_ passes to computeColors is at least 10 times the final
\* tolerance and at most 1e-4.
C20_ToleranceInInterval ==
    (last.op = "update_" /\ ~last.threw /\ last.flag) =>
        /\ 10 * last.finalTol <= last.tol
        /\ last.tol <= MaxReasmTol

\* C20: the tolerance update_ passes to computeColors is at least 10 times
\* the final tolerance and at most the larger of that and 1e-4; it is the
\* square of the nonlinear error whenever that lies between the two bounds,
\* and 10 times the final tolerance whenever this exceeds 1e-4.
C20_ToleranceClamped ==
    (last.op = "update_" /\ ~last.threw /\ last.flag) =>
        /\ 10 * last.finalTol <= last.tol
        /\ last.tol <= Max(10 * last.finalTol, MaxReasmTol)
        /\ (10 * last.finalTol <= last.error * last.error
              /\ last.error * last.error <= MaxReasmTol)
             => last.tol = last.error * last.error
        /\ 10 * last.finalTol > MaxReasmTol => last.tol = 10 * last.finalTol

\* update_ ran with a final tolerance above 1e-5 and a nonlinear error above
\* 1e-2: the lower bound lies above 1e-4.
C20_Witness ==
    /\ last.op = "update_"
    /\ ~last.threw
    /\ last.flag
    /\ 10 * last.finalTol > MaxReasmTol
    /\ last.error * last.error > MaxReasmTol
    /\ last.tol = 10 * last.finalTol

\* C21 as stated: in a non-recycled assemble() that directly follows
\* computeColors(), no interior element that takes the residual-only path
\* (a Green element) has a primary DOF that is not Green, so that every
\* zeroed row gets the Jacobian contribution of every interior element that
\* has its DOF as a primary DOF.
C21_RowCompleteness ==
    [][(/\ enablePartialRelinearization
        /\ last.op = "computeColors"
        /\ last'.op = "assemble"
        /\ ~last'.recycled) =>
          \A r \in Ranks : \A e \in InteriorElems(r) :
             elementColor[r][e] = Green =>
                \A i \in PrimaryDofs(r, e) : dofColor[r][i] = Green]_vars

\* C22: a non-recycled assemble() with partial relinearization enabled leaves
\* alone the matrix row and the cached storage Jacobian block of every DOF
\* that is Green when it starts, whether or not the evaluator throws.
C22_GreenRowsKept ==
    [][(/\ enablePartialRelinearization
        /\ last'.op = "assemble"
        /\ ~last'.recycled) =>
          \A r \in Ranks : \A i \in Dofs(r) :
             dofColor[r][i] = Green =>
                /\ matrix'[r][i] = matrix[r][i]
                /\ i \in DOMAIN storageJacobian[r] =>
                     storageJacobian'[r][i] = storageJacobian[r][i]]_vars

\* A partial assembly at the second iterate: the row of DOF 2, Green when it
\* started, still holds the Jacobian of the first iterate, while the row of
\* DOF 0 holds that of the second.
C22_Witness ==
    /\ enablePartialRelinearization
    /\ enableLinearizationRecycling
    /\ last.op = "assemble"
    /\ ~last.recycled
    /\ last.version = 2
    /\ \A r \in Ranks : last.failAt[r] = 0
    /\ gridName = "Chain3"
    /\ matrix[1][2][2] = RefJacobian(1, 1, 0, Len(Elems(1)), 2, 2)
    /\ matrix[1][0][0] = RefJacobian(1, 2, 0, Len(Elems(1)), 0, 0)
    /\ matrix[1][2][2] # 0

\* The interior elements of rank r on which assemble() invokes an evaluator
\* when the evaluator throws at element failAt: all of them if it does not
\* throw (failAt = 0), else those up to and including failAt.
EvaluatedElems(r, failAt) ==
    { e \in InteriorElems(r) : failAt = 0 \/ e <= failAt }

\* The number of interior Green elements of all ranks.
RECURSIVE InteriorGreenCount(_)
InteriorGreenCount(q) ==
    IF q = 0 THEN 0
    ELSE InteriorGreenCount(q - 1)
         + Cardinality({ e \in InteriorElems(q) : elementColor[q][e] = Green })

\* C23: in a non-recycled assemble() with partial relinearization enabled
\* the residual-only evaluator is invoked exactly on the interior Green
\* elements and the full evaluator exactly on the other interior elements
\* (on a rank whose evaluator throws: on those up to the element at which it
\* throws), no evaluator is invoked on a non-interior element, and when the
\* assembly succeeds the reported count of Green elements is the number of
\* interior Green elements of all ranks.
C23_EvaluatorPerColor ==
    [][(/\ enablePartialRelinearization
        /\ last'.op = "assemble"
        /\ ~last'.recycled) =>
          /\ \A r \in Ranks :
               /\ last'.resEval[r] =
                    { e \in EvaluatedElems(r, last'.failAt[r]) :
                         elementColor[r][e] = Green }
               /\ last'.fullEval[r] =
                    { e \in EvaluatedElems(r, last'.failAt[r]) :
                         elementColor[r][e] # Green }
               /\ \A e \in ElemIdx(r) \ InteriorElems(r) :
                    e \notin last'.resEval[r] \cup last'.fullEval[r]
          /\ (\A r \in Ranks : last'.failAt[r] = 0) =>
               \A r \in Ranks : greenElems'[r] = InteriorGreenCount(Len(grid.elems))]_vars

\* A successful partial assembly of the chain of 4 DOFs that met a Red, a
\* Yellow and a Green element.
C23_Witness ==
    /\ last.op = "assemble"
    /\ ~last.recycled
    /\ gridName = "Chain4"
    /\ \A r \in Ranks : last.failAt[r] = 0
    /\ last.resEval[1] = {3}
    /\ last.fullEval[1] = {1, 2}
    /\ greenElems[1] = 1
    /\ elementColor[1] = << Red, Yellow, Green >>

\* C24: after a successful non-recycled assemble() the residual of every DOF
\* of every rank, whatever its colour, is the sum of the local residuals
\* evaluated in this call over the interior elements that have the DOF as a
\* primary DOF; nothing of an earlier assemble() is left in it.
C24_ResidualFromZero ==
    (/\ last.op = "assemble"
     /\ ~last.recycled
     /\ \A r \in Ranks : last.failAt[r] = 0) =>
        \A r \in Ranks : \A i \in Dofs(r) :
            residual[r][i] = RefResidual(r, last.version, 0, Len(Elems(r)), i)

\* A second successful assembly, at the second iterate, in which a Green
\* element was evaluated by the residual-only evaluator.
C24_Witness ==
    /\ last.op = "assemble"
    /\ ~last.recycled
    /\ \A r \in Ranks : last.failAt[r] = 0
    /\ last.version = 2
    /\ numAssemble = 2
    /\ last.resEval[1] # {}
    /\ residual[1][0] # 0

\* The storage term of DOF i summed over the interior elements among the
\* first n elements of rank r that have i as a primary DOF, evaluated at the
\* given version.
RECURSIVE RefStorageTerm(_, _, _, _)
RefStorageTerm(r, version, n, i) ==
    IF n = 0 THEN 0
    ELSE RefStorageTerm(r, version, n - 1, i)
         + (IF n \in InteriorElems(r) /\ i \in PrimaryDofs(r, n)
            THEN EvalStorageTerm(version, n, LocalIdx(r, n, i))
            ELSE 0)

\* C25: with linearization recycling enabled, after every successful
\* non-recycled assemble() the cached storage term of every DOF, Green or
\* not, is the sum of the storage-term contributions evaluated in that
\* assemble() for the DOF; contributions of earlier assemblies are not in it.
C25_StorageTermOfLastAssembly ==
    (/\ last.op = "assemble"
     /\ ~last.recycled
     /\ enableLinearizationRecycling
     /\ \A r \in Ranks : last.failAt[r] = 0) =>
        \A r \in Ranks : \A i \in Dofs(r) :
            storageTerm[r][i] = RefStorageTerm(r, last.version, Len(Elems(r)), i)

\* C26: with partial relinearization enabled, after every successful
\* assemble(), recycled or not, every DOF colour of every rank is Green; an
\* assemble() that fails leaves the DOF colours as they were.
C26_ColorsGreenAfterAssemble ==
    [][(last'.op = "assemble" /\ enablePartialRelinearization) =>
          IF \A r \in Ranks : last'.failAt[r] = 0
          THEN \A r \in Ranks : \A i \in Dofs(r) : dofColor'[r][i] = Green
          ELSE dofColor' = dofColor]_vars

\* A failed assemble(), after an earlier assembly, that leaves a Red DOF next
\* to a Green one.
C26_Witness ==
    /\ last.op = "assemble"
    /\ enablePartialRelinearization
    /\ \E r \in Ranks : last.failAt[r] # 0
    /\ numAssemble >= 1
    /\ \E r \in Ranks : \E i, j \in Dofs(r) :
          dofColor[r][i] = Red /\ dofColor[r][j] = Green

\* C27: Orange is transient.  In every state outside a running
\* computeColors() no DOF of any rank is Orange, and every DOF that is still
\* Orange after the second border exchange of computeColors() ends the call
\* Red with error zero.
C27_OrangeIsTransient ==
    /\ [](\A r \in Ranks : \A i \in Dofs(r) : dofColor[r][i] # Orange)
    /\ [][ (last'.op = "computeColors" /\ enablePartialRelinearization) =>
             \A r \in Ranks : \A i \in Dofs(r) :
                 ColorsAfterMaxExchange(dofError, last'.tol)[r][i] = Orange =>
                     (dofColor'[r][i] = Red /\ dofError'[r][i] = 0) ]_vars

\* computeColors() has returned on the chain of 4 DOFs with the second element
\* Yellow (so DOF 1 was not Red when the elements were coloured and became
\* Orange) and DOF 1 Red with error zero.
C27_Witness ==
    /\ gridName = "Chain4"
    /\ last.op = "computeColors"
    /\ dofColor[1][0] = Red
    /\ elementColor[1][2] = Yellow
    /\ dofColor[1][1] = Red
    /\ dofError[1][1] = 0
    /\ dofColor[1][2] = Green

\* C28 as stated: after computeColors(tolerance), every DOF that is part of a
\* Red element and that is not Red by its own error (above the tolerance) nor
\* by an earlier marking (Red before the call) has colour Yellow.
C28_NeighbourOfRedIsYellow ==
    [][ (last'.op = "computeColors" /\ enablePartialRelinearization) =>
          \A r \in Ranks : \A i \in Dofs(r) :
              (/\ dofColor[r][i] # Red
               /\ dofError[r][i] <= last'.tol
               /\ \E e \in ElemIdx(r) :
                     i \in StencilDofs(r, e) /\ elementColor'[r][e] = Red)
                  => dofColor'[r][i] = Yellow ]_vars

C30_BorderColorsAgree ==
    last.op = "computeColors" =>
        \A i \in grid.border : \A q1, q2 \in Sharing(i) :
            dofColor[q1][i] = dofColor[q2][i]

\* computeColors() has returned on the two-rank grid with the border DOF Red
\* on both ranks while the element of rank 2 is Green: rank 2 held the DOF
\* Green when it coloured its elements and got Red from rank 1.
C30_Witness ==
    /\ gridName = "TwoRank"
    /\ last.op = "computeColors"
    /\ elementColor[2][1] = Green
    /\ dofColor[2][1] = Red
    /\ dofColor[1][1] = Red

CollectivesOfCall(r) ==
    proc[r].pc \in {"colors", "done", "thrown"} =>
        CallKinds(r) =
            IF /\ proc[r].pc # "thrown"
               /\ ~proc[r].reused
               /\ enablePartialRelinearization
            THEN << "min", "sum", "max" >>
            ELSE << "min" >>

\* Two ranks that have finished the same assemble() call have both returned
\* or both thrown, and have entered the same collective operations.
SameCollectives ==
    \A q1, q2 \in Ranks :
        (/\ proc[q1].pc \in {"done", "thrown"}
         /\ proc[q2].pc \in {"done", "thrown"}
         /\ proc[q1].round = proc[q2].round)
            => /\ proc[q1].pc = proc[q2].pc
               /\ Len(proc[q1].calls) = Len(proc[q2].calls)
               /\ \A k \in 1..Len(proc[q1].calls) :
                     proc[q1].calls[k].kind = proc[q2].calls[k].kind

\* C32: no rank blocks forever in assemble().  When all ranks call assemble()
\* with the same reuse flag and configuration, every rank enters the same
\* sequence of collective operations (one min reduction, then one sum and one
\* max reduction on global success of a non-recycled assembly with partial
\* relinearization), whether its local assembly succeeded or failed, and
\* every assemble() that a rank has begun returns or throws on that rank.
C32_AssembleTerminates ==
    /\ [](SameCollectives /\ \A r \in Ranks : CollectivesOfCall(r))
    /\ (proc[1].pc \in {"local", "min", "sum", "max", "colors"})
          ~> (proc[1].pc \in {"done", "thrown"})
    /\ (proc[2].pc \in {"local", "min", "sum", "max", "colors"})
          ~> (proc[2].pc \in {"done", "thrown"})

\* Both ranks have left their second assemble() by the throw after the min
\* reduction: the local assembly of rank 1 succeeded, that of rank 2 failed.
C32_Witness ==
    /\ proc[1].pc = "thrown" /\ proc[2].pc = "thrown"
    /\ proc[1].round = 2 /\ proc[2].round = 2
    /\ CallKinds(1) = << "min" >>
    /\ proc[1].calls[Len(proc[1].calls)].val
    /\ ~proc[2].calls[Len(proc[2].calls)].val
    /\ Len(proc[1].calls) = 4

\* What a recycled assemble() leaves alone, in one step: it invokes no
\* per-element evaluator, and every off-diagonal block, the cached storage
\* term, the element colours, the DOF errors, the Green element count and
\* both relinearization accuracies are the same after the call as before it.
RecycledFrame ==
    (last'.op = "assemble" /\ last'.recycled) =>
        /\ \A r \in Ranks : last'.resEval[r] = {} /\ last'.fullEval[r] = {}
        /\ \A r \in Ranks : \A i \in Dofs(r) :
              \A j \in DOMAIN matrix[r][i] \ {i} :
                  matrix'[r][i][j] = matrix[r][i][j]
        /\ storageTerm' = storageTerm
        /\ elementColor' = elementColor
        /\ dofError' = dofError
        /\ greenElems' = greenElems
        /\ nextRelinearizationAccuracy' = nextRelinearizationAccuracy
        /\ relinearizationAccuracy' = relinearizationAccuracy

\* C33 as stated: a recycled assemble() invokes no per-element evaluator and
\* changes only the diagonal blocks, the cached storage Jacobian, the
\* residual, the reuse flag and the remembered step size; in particular the
\* DOF colours are the same after the call as before it.
C33_RecycledChangesOnly ==
    [][ /\ RecycledFrame
        /\ (last'.op = "assemble" /\ last'.recycled) => dofColor' = dofColor ]_vars

\* C33: a recycled assemble() invokes no per-element evaluator and changes
\* only the diagonal blocks, the cached storage Jacobian, the residual, the
\* reuse flag, the remembered step size and the DOF colours, all of which it
\* sets to Green; every off-diagonal block, the cached storage term, the
\* element colours and relinearizationAccuracy are the same after the call.
C33_RecycledFrame ==
    [][ /\ RecycledFrame
        /\ (last'.op = "assemble" /\ last'.recycled) =>
              \A r \in Ranks : \A i \in DOMAIN dofColor[r] :
                  dofColor'[r][i] = Green ]_vars

\* A recycled assemble() at another step size has returned: the cached storage
\* Jacobian is rescaled, the off-diagonal blocks and the cached storage term
\* are those of the assembly before, and an element is Red while every DOF is
\* Green.
C33_Witness ==
    /\ last.op = "assemble"
    /\ last.recycled
    /\ \E r \in Ranks :
         /\ \E i \in Dofs(r) : storageJacobian[r][i] % Scale # 0
         /\ \E i \in Dofs(r) : storageTerm[r][i] # 0
         /\ \E i \in Dofs(r) : \E j \in DOMAIN matrix[r][i] \ {i} :
                matrix[r][i][j] # 0
         /\ \E e \in ElemIdx(r) : elementColor[r][e] = Red
         /\ \A i \in Dofs(r) : dofColor[r][i] = Green

\* The DOFs of rank r whose total volume is not positive: its overlap and
\* ghost DOFs.
NoVolumeDofs(r) == Dofs(r) \ grid.owned[r]

\* C34: in every state every DOF error is non-negative; after
\* updateDiscrepancy every DOF whose total volume is not positive has error
\* zero; and computeColors does not make such a DOF Red by its own error: the
\* pass that compares the errors with the tolerance leaves its colour.
C34_ErrorsNonNegative ==
    /\ [](\A r \in Ranks : \A i \in DOMAIN dofError[r] : dofError[r][i] >= 0)
    /\ []((last.op = "updateDiscrepancy" /\ enablePartialRelinearization) =>
             \A r \in Ranks : \A i \in NoVolumeDofs(r) : dofError[r][i] = 0)
    /\ [][ (last'.op = "computeColors" /\ enablePartialRelinearization) =>
              \A r \in Ranks : \A i \in NoVolumeDofs(r) :
                  MarkRedDofs(dofColor[r], dofError[r], last'.tol)[i]
                      = dofColor[r][i] ]_vars

\* computeColors() has returned on the grid with an overlap element: DOF 2 was
\* moved and is Red on rank 2, which owns it, and Green with error zero on
\* rank 1, where it has no volume.
C34_Witness ==
    /\ gridName = "Overlap"
    /\ last.op = "computeColors"
    /\ 2 \in NoVolumeDofs(1)
    /\ dofColor[2][2] = Red
    /\ dofColor[1][2] = Green
    /\ dofError[1][2] = 0
    /\ dofColor[1][0] = Green

\* C35: in the state right after computeColors(tolerance) returns, every Red
\* DOF has error zero and every DOF has an error of at most the tolerance.
C35_ErrorsBelowTolerance ==
    (last.op = "computeColors" /\ enablePartialRelinearization) =>
        \A r \in Ranks : \A i \in Dofs(r) :
            /\ dofColor[r][i] = Red => dofError[r][i] = 0
            /\ dofError[r][i] <= last.tol

\* computeColors() has returned after an error was above the tolerance, with
\* Red DOFs next to a Green one on the chain of 4 DOFs.
C35_Witness ==
    /\ gridName = "Chain4"
    /\ last.op = "computeColors"
    /\ last.above
    /\ dofColor[1][0] = Red /\ dofError[1][0] = 0
    /\ dofColor[1][1] = Red
    /\ dofColor[1][3] = Green

\* C36: computeColors is deterministic with respect to the traversal order:
\* whatever the order in which each of its loops visits the elements, the DOF
\* colours, the element colours, the DOF errors and the next relinearization
\* accuracy it leaves are those it leaves when every loop visits the elements
\* in index order.
C36_OrderIndependent ==
    [][ last'.op = "computeColors" => ColorsInOrder(last'.tol, IndexOrders) ]_vars

\* computeColors() has returned on the chain of 4 DOFs with a Red, a Yellow
\* and a Green element: every loop had elements to act on and to skip.
C36_Witness ==
    /\ gridName = "Chain4"
    /\ last.op = "computeColors"
    /\ \E e \in ElemIdx(1) : elementColor[1][e] = Red
    /\ \E e \in ElemIdx(1) : elementColor[1][e] = Yellow
    /\ \E e \in ElemIdx(1) : elementColor[1][e] = Green

====
